---- MODULE Spec2Model ----
(***************************************************************************)
(* A model of the pty screen mirror of BRLTTY (Programs/pty_screen.c): the *)
(* shared-memory segment (header + row-major character grid), the process  *)
(* local scroll region, and the curses window (stdscr) the mirror calls    *)
(* and samples.                                                            *)
(*                                                                         *)
(* unsigned int values are 32 bits wide.  A value v is represented by its  *)
(* two's-complement signed reading (v for v < 2^31, v - 2^32 otherwise),   *)
(* so that 0 - 1 is -1, standing for 4294967295.  Addition and subtraction *)
(* modulo 2^32 are then plain + and - (the inputs are small, so no result  *)
(* comes near 2^31), the conversion to int is the identity, and only the   *)
(* unsigned comparisons need care (ULess).                                 *)
(***************************************************************************)
EXTENDS Integers, Sequences, FiniteSets, TLC

\* The terminal's size (curses LINES and COLS) and the number of calls explored.
LINES == 3
COLS == 3
MaxSteps == 5

VARIABLES
  segmentHeader,      \* the mapped PtyHeader, or NULL
  grid,               \* the PtyCharacter array behind the header, row-major
  segmentSize,        \* static unsigned int segmentSize
  scrollRegionTop,    \* static unsigned int scrollRegionTop
  scrollRegionBottom, \* static unsigned int scrollRegionBottom
  stdscr,             \* the curses window, or NULL before initscr()
  isendwin,           \* endwin() was called and no initscr() since
  segmentIdentifier,  \* static int segmentIdentifier
  segments,           \* the shared memory segments created under the terminal's key
  crashed,            \* the process died on a store outside the segment
  op,                 \* the last operation called and its arguments
  scrolled,           \* the amounts scrollLines() got during the last operation
  inRange,            \* every call since ptyBeginScreen had in-range arguments
  steps,              \* number of operations called so far
  stack,              \* the functions the writer is in, and where, when it runs
                      \* statement by statement
  atCall,             \* the state when the exported function it runs was called
  atEntry,            \* the state when the setCharacter it runs was entered
  observed,           \* the cursor a reader of the segment read last
  scr,                \* cmd_navigation.c: the screen, its size, cursor and text
  brl,                \* the braille display: brl.textRows, brl.textColumns
  prefs,              \* the preferences the navigation commands read
  ses,                \* the session: ses->winx, ses->winy
  alerts,             \* the alerts raised by the command handled last
  nav                 \* the command being handled, where it is, its locals

vars == <<segmentHeader, grid, segmentSize, scrollRegionTop, scrollRegionBottom,
          stdscr, isendwin, segmentIdentifier, segments, crashed, op, scrolled,
          inRange, steps, stack, atCall, atEntry, observed,
          scr, brl, prefs, ses, alerts, nav>>


NULL == [null |-> TRUE]

----------------------------------------------------------------------------
(* unsigned int *)

\* a < b on two unsigned ints (negative representatives are the large values)
ULess(a, b) == IF (a < 0) = (b < 0) THEN a < b ELSE b < 0

\* 4294967295
UINT_MAX == 0 - 1

----------------------------------------------------------------------------
(* The curses window *)

Attributes == {"A_BLINK", "A_BOLD", "A_UNDERLINE", "A_REVERSE", "A_STANDOUT", "A_DIM"}

\* the window's background character: what curses fills cleared cells with
Blank == [text |-> " ", attr |-> {}]

Positions(w) == (0 .. w.maxy) \X (0 .. w.maxx)

\* initscr(): stdscr covers the terminal, is blank, cursor at the origin
NewWindow ==
  [maxy |-> LINES - 1, maxx |-> COLS - 1, cury |-> 0, curx |-> 0,
   regtop |-> 0, regbottom |-> LINES - 1, attrs |-> {}, scroll |-> FALSE,
   cells |-> [p \in (0 .. LINES - 1) \X (0 .. COLS - 1) |-> Blank]]

\* move(y, x): fails, changing nothing, outside the window
wmove(w, y, x) ==
  IF y >= 0 /\ y <= w.maxy /\ x >= 0 /\ x <= w.maxx
  THEN [w EXCEPT !.cury = y, !.curx = x]
  ELSE w

\* setscrreg(top, bottom): fails, changing nothing, unless 0 <= top < bottom <= maxy
wsetscrreg(w, top, bottom) ==
  IF top >= 0 /\ top <= w.maxy /\ bottom >= 0 /\ bottom <= w.maxy /\ bottom > top
  THEN [w EXCEPT !.regtop = top, !.regbottom = bottom]
  ELSE w

\* _nc_scroll_window: shift the lines top..bottom by n (up for n > 0), blank the rest
ScrollWindow(w, n, top, bottom) ==
  IF top < 0 \/ bottom < top \/ bottom > w.maxy THEN w
  ELSE IF n < 0 THEN
    LET limit == top - n IN
    [w EXCEPT !.cells = [p \in Positions(w) |->
       IF p[1] >= limit /\ p[1] <= bottom THEN w.cells[<<p[1] + n, p[2]>>]
       ELSE IF p[1] >= top /\ p[1] < limit THEN Blank
       ELSE w.cells[p]]]
  ELSE IF n > 0 THEN
    LET limit == bottom - n IN
    [w EXCEPT !.cells = [p \in Positions(w) |->
       IF p[1] >= top /\ p[1] <= limit THEN w.cells[<<p[1] + n, p[2]>>]
       ELSE IF p[1] > limit /\ p[1] <= bottom THEN Blank
       ELSE w.cells[p]]]
  ELSE w

\* scrl(n): scroll the scroll region; needs scrollok
wscrl(w, n) ==
  IF ~w.scroll THEN w ELSE ScrollWindow(w, n, w.regtop, w.regbottom)


\* what curses stores for a character written with the window's attributes on
render(w, ch) == [text |-> ch, attr |-> w.attrs]

\* insertln() (n = 1) and deleteln() (n = -1): shift the lines from the cursor's
\* to the last one
winsdelln(w, n) == ScrollWindow(w, 0 - n, w.cury, w.maxy)

\* insch(ch): shift the rest of the cursor's line right, losing its last cell
winsch(w, ch) ==
  [w EXCEPT !.cells = [p \in Positions(w) |->
     IF p[1] # w.cury \/ p[2] < w.curx THEN w.cells[p]
     ELSE IF p[2] = w.curx THEN render(w, ch)
     ELSE w.cells[<<p[1], p[2] - 1>>]]]

\* delch(): shift the rest of the cursor's line left, blanking its last cell
wdelch(w) ==
  [w EXCEPT !.cells = [p \in Positions(w) |->
     IF p[1] # w.cury \/ p[2] < w.curx THEN w.cells[p]
     ELSE IF p[2] = w.maxx THEN Blank
     ELSE w.cells[<<p[1], p[2] + 1>>]]]

\* clrtoeol(): blank the cursor's line from the cursor on
wclrtoeol(w) ==
  [w EXCEPT !.cells = [p \in Positions(w) |->
     IF p[1] = w.cury /\ p[2] >= w.curx THEN Blank ELSE w.cells[p]]]

\* clrtobot(): clrtoeol() and blank every line below
wclrtobot(w) ==
  [w EXCEPT !.cells = [p \in Positions(w) |->
     IF p[1] > w.cury \/ (p[1] = w.cury /\ p[2] >= w.curx) THEN Blank ELSE w.cells[p]]]

\* the cursor leaves the last column: next line, scrolling at the region's bottom
wrap_to_next_line(w) ==
  IF w.cury + 1 > w.regbottom
  THEN IF ~w.scroll
       THEN [w EXCEPT !.cury = w.regbottom, !.curx = w.maxx]
       ELSE [wscrl(w, 1) EXCEPT !.cury = w.regbottom, !.curx = 0]
  ELSE [w EXCEPT !.cury = w.cury + 1, !.curx = 0]

\* addch(ch) for a printing character: store it and advance the cursor
waddch(w, ch) ==
  LET stored == [w EXCEPT !.cells[<<w.cury, w.curx>>] = render(w, ch)]
  IN IF w.curx + 1 > w.maxx
     THEN wrap_to_next_line(stored)
     ELSE [stored EXCEPT !.curx = w.curx + 1]

\* in_wch(): the cell under the cursor
win_wch(w) == w.cells[<<w.cury, w.curx>>]

wattrset(w, attributes) == [w EXCEPT !.attrs = attributes]
wattron(w, attributes) == [w EXCEPT !.attrs = @ \cup attributes]
wattroff(w, attributes) == [w EXCEPT !.attrs = @ \ attributes]

\* f applied n times
RECURSIVE Repeat(_, _, _)
Repeat(f(_), n, w) == IF n <= 0 THEN w ELSE Repeat(f, n - 1, f(w))

----------------------------------------------------------------------------
(* Grid layout (pty_shared) *)

SizeofPtyHeader == 32
SizeofPtyCharacter == 8

\* an address the 32-bit coordinates put far outside the segment
FarAway == 0 - 1

ptyGetScreenStart(h) == 0
ptyGetScreenEnd(h) == h.screenHeight * h.screenWidth

\* the cell of (row, column), as an index into the array
ptyGetCharacter(h, row, column) ==
  IF row < 0 \/ column < 0 THEN FarAway ELSE (row * h.screenWidth) + column

\* the byte offset, from the start of the segment, of the cell of (row, column)
CellAddress(h, row, column) ==
  h.charactersOffset + (h.characterSize * ptyGetCharacter(h, row, column))

\* the end pointer ptyGetCharacter hands back: one past the cell's row
ptyGetRowEnd(h, row) ==
  IF row < 0 THEN FarAway ELSE (row + 1) * h.screenWidth

\* the PtyCharacter fields are booleans: each is set when its bit is
ToPtyCharacter(wch) ==
  [text |-> wch.text,
   blink |-> "A_BLINK" \in wch.attr,
   bold |-> "A_BOLD" \in wch.attr,
   underline |-> "A_UNDERLINE" \in wch.attr,
   reverse |-> "A_REVERSE" \in wch.attr,
   standout |-> "A_STANDOUT" \in wch.attr,
   dim |-> "A_DIM" \in wch.attr]

----------------------------------------------------------------------------
(* System V shared memory: the segments created under the terminal's key.  *)
(* A segment's identifier is its index in s.segs; removed is the mark      *)
(* IPC_RMID leaves (the segment lives on while attached, its key private), *)
(* nattch the number of attachments, written whether its header and grid   *)
(* have been initialized.                                                  *)

\* a segment as shmget creates it: zero-filled, attached nowhere
NewSegment == [removed |-> FALSE, nattch |-> 0, written |-> FALSE]

\* the segments a lookup of the key finds
LiveSegments(segs) == {i \in DOMAIN segs : ~segs[i].removed}

\* shmctl(identifier, IPC_RMID, NULL); it fails for an identifier that names no
\* segment
shmctl_RMID(segs, identifier) ==
  IF identifier \in DOMAIN segs THEN [segs EXCEPT ![identifier].removed = TRUE] ELSE segs

\* segmentIdentifier = shmget(key, segmentSize, IPC_CREAT | S_IRUSR | S_IWUSR):
\* the segment the key names when there is one, a new one otherwise, -1 when
\* the system refuses
shmget(s, granted) ==
  IF ~granted THEN [s EXCEPT !.id = 0 - 1]
  ELSE IF LiveSegments(s.segs) # {}
  THEN [s EXCEPT !.id = CHOOSE i \in LiveSegments(s.segs) : TRUE]
  ELSE [s EXCEPT !.segs = Append(@, NewSegment), !.id = Len(s.segs) + 1]

\* found = ptyGetSegmentIdentifier(key, &segmentIdentifier): the identifier is
\* stored only when the key names a segment
ptyGetSegmentIdentifier(s) ==
  IF LiveSegments(s.segs) = {} THEN s
  ELSE [s EXCEPT !.id = CHOOSE i \in LiveSegments(s.segs) : TRUE]

\* the memory of a segment nobody has written yet
ZeroHeader ==
  [headerSize |-> 0, segmentSize |-> 0, characterSize |-> 0, charactersOffset |-> 0,
   screenHeight |-> 0, screenWidth |-> 0, cursorRow |-> 0, cursorColumn |-> 0]

ZeroCharacter ==
  [text |-> "", blink |-> FALSE, bold |-> FALSE, underline |-> FALSE,
   reverse |-> FALSE, standout |-> FALSE, dim |-> FALSE]

\* segmentHeader = ptyAttachSegment(segmentIdentifier): NULL when shmat fails
ptyAttachSegment(s, granted) ==
  IF granted /\ s.id \in DOMAIN s.segs
  THEN [s EXCEPT !.segs[s.id].nattch = @ + 1,
                 !.h = ZeroHeader,
                 !.g = [i \in 0 .. ((LINES * COLS) - 1) |-> ZeroCharacter]]
  ELSE [s EXCEPT !.h = NULL, !.g = <<>>]

\* ptyDetachSegment(segmentHeader): shmdt of the mapping
ptyDetachSegment(s) ==
  IF s.h # NULL /\ s.id \in DOMAIN s.segs
  THEN [s EXCEPT !.segs[s.id].nattch = @ - 1, !.h = NULL, !.g = <<>>]
  ELSE s

----------------------------------------------------------------------------
(* pty_screen.c.  A function of the source is an operator on the record s  *)
(* of everything it reads and writes:                                      *)
(*   s.h the header, s.g the grid, s.w stdscr, s.top and s.bottom the      *)
(*   scroll region, s.size segmentSize, s.log the scrollLines() amounts,   *)
(*   s.stray whether a store went outside the grid, s.id                   *)
(*   segmentIdentifier, s.segs the segments, s.ended whether endwin() was  *)
(*   called last, s.result what the function returns.                      *)

\* the initializer of initializeCharacters: a space, no attribute set
Initializer ==
  [text |-> " ", blink |-> FALSE, bold |-> FALSE, underline |-> FALSE,
   reverse |-> FALSE, standout |-> FALSE, dim |-> FALSE]

\* faulty variant: the size of the grid alone, the header forgotten
allocateSegmentSize_CellsOnly == SizeofPtyCharacter * COLS * LINES

\* segmentSize as allocateSegment computes it
allocateSegmentSize == (SizeofPtyCharacter * COLS * LINES) + SizeofPtyHeader

\* faulty variant: getcury and getcurx exchanged
saveCursorPosition_Swapped(s) ==
  [s EXCEPT !.h.cursorRow = s.w.curx, !.h.cursorColumn = s.w.cury]

saveCursorPosition(s) ==
  [s EXCEPT !.h.cursorRow = s.w.cury, !.h.cursorColumn = s.w.curx]

\* faulty variant: memcpy for memmove, a forward copy that reads what it has just written
moveCharacters_ForwardCopy(s, to, from, count) ==
  IF count = 0 THEN s
  ELSE IF from \in DOMAIN s.g /\ to \in DOMAIN s.g /\ (to + count - 1) \in DOMAIN s.g
            /\ (from + count - 1) \in DOMAIN s.g
  THEN [s EXCEPT !.g = [i \in DOMAIN s.g |->
          IF i >= to /\ i < to + count
          THEN IF to > from THEN s.g[from + ((i - to) % (to - from))] ELSE s.g[(i - to) + from]
          ELSE s.g[i]]]
  ELSE [s EXCEPT !.stray = TRUE]

\* if (count) memmove(to, from, count * sizeof(*from))
moveCharacters(s, to, from, count) ==
  IF count = 0 THEN s
  ELSE IF from \in DOMAIN s.g /\ to \in DOMAIN s.g /\ (to + count - 1) \in DOMAIN s.g
            /\ (from + count - 1) \in DOMAIN s.g
  THEN [s EXCEPT !.g = [i \in DOMAIN s.g |->
          IF i >= to /\ i < to + count THEN s.g[(i - to) + from] ELSE s.g[i]]]
  ELSE [s EXCEPT !.stray = TRUE]

\* while (from < to) *from++ = *character;
setCharacters(s, from, to, character) ==
  [s EXCEPT !.g = [i \in DOMAIN s.g |-> IF i >= from /\ i < to THEN character ELSE s.g[i]],
            !.stray = @ \/ (from < to /\ \E i \in from .. (to - 1) : i \notin DOMAIN s.g)]

\* setCharacters(from+1, to, from); a far away from lies beyond every to
propagateCharacter(s, from, to) ==
  IF from = FarAway THEN s
  ELSE IF from \in DOMAIN s.g THEN setCharacters(s, from + 1, to, s.g[from])
  ELSE [s EXCEPT !.stray = @ \/ (from + 1 < to)]

initializeCharacters(s, from, to) == setCharacters(s, from, to, Initializer)

\* faulty variant: characterSize is given the size of the header
initializeHeader_HeaderSizedCharacters(s) ==
  LET headerSize == SizeofPtyHeader
      h == [headerSize |-> headerSize,
            segmentSize |-> s.size,
            characterSize |-> headerSize,
            charactersOffset |-> headerSize,
            screenHeight |-> LINES,
            screenWidth |-> COLS,
            cursorRow |-> 0, cursorColumn |-> 0]
      s1 == saveCursorPosition([s EXCEPT !.h = h, !.segs[s.id].written = TRUE])
  IN initializeCharacters(s1, ptyGetScreenStart(s1.h), ptyGetScreenEnd(s1.h))

initializeHeader(s) ==
  LET headerSize == SizeofPtyHeader
      h == [headerSize |-> headerSize,
            segmentSize |-> s.size,
            characterSize |-> SizeofPtyCharacter,
            charactersOffset |-> headerSize,
            screenHeight |-> LINES,
            screenWidth |-> COLS,
            cursorRow |-> 0, cursorColumn |-> 0]
      s1 == saveCursorPosition([s EXCEPT !.h = h, !.segs[s.id].written = TRUE])
  IN initializeCharacters(s1, ptyGetScreenStart(s1.h), ptyGetScreenEnd(s1.h))

\* faulty variant: the header is set and the curses cursor left where it was
ptySetCursorPosition_HeaderOnly(s, row, column) ==
  [s EXCEPT !.h.cursorRow = row, !.h.cursorColumn = column]

ptySetCursorPosition(s, row, column) ==
  [s EXCEPT !.w = wmove(s.w, row, column),
            !.h.cursorRow = row, !.h.cursorColumn = column]

ptySetCursorRow(s, row) == ptySetCursorPosition(s, row, s.h.cursorColumn)

ptySetCursorColumn(s, column) == ptySetCursorPosition(s, s.h.cursorRow, column)

\* faulty variant: the region is given to curses and the statics are not set
ptySetScrollRegion_LibraryOnly(s, top, bottom) ==
  [s EXCEPT !.w = wsetscrreg(s.w, top, bottom)]

ptySetScrollRegion(s, top, bottom) ==
  [s EXCEPT !.top = top, !.bottom = bottom, !.w = wsetscrreg(s.w, top, bottom)]

scrollLines(s, amount) ==
  [s EXCEPT !.w = wscrl(s.w, amount), !.log = Append(s.log, amount)]

\* faulty variant: only the top of the region is compared
isWithinScrollRegion_TopOnly(s, row) ==
  IF ULess(row, s.top) THEN FALSE
  ELSE TRUE

isWithinScrollRegion(s, row) ==
  IF ULess(row, s.top) THEN FALSE
  ELSE IF ULess(s.bottom, row) THEN FALSE
  ELSE TRUE

\* faulty variant: delta <= 0, scrolling already when the move ends on the top row
ptyMoveCursorUp_ScrollAtTop(s, amount) ==
  LET oldRow == s.h.cursorRow
      newRow == oldRow - amount
      delta == newRow - s.top
      scroll == isWithinScrollRegion(s, oldRow) /\ delta <= 0
      s1 == IF scroll THEN scrollLines(s, delta) ELSE s
      row == IF scroll THEN s.top ELSE newRow
  IN IF row # oldRow THEN ptySetCursorRow(s1, row) ELSE s1

\* faulty variant: scrolling by the whole amount instead of the overshoot
ptyMoveCursorUp_ScrollByAmount(s, amount) ==
  LET oldRow == s.h.cursorRow
      newRow == oldRow - amount
      delta == newRow - s.top
      scroll == isWithinScrollRegion(s, oldRow) /\ delta < 0
      s1 == IF scroll THEN scrollLines(s, 0 - amount) ELSE s
      row == IF scroll THEN s.top ELSE newRow
  IN IF row # oldRow THEN ptySetCursorRow(s1, row) ELSE s1

ptyMoveCursorUp(s, amount) ==
  LET oldRow == s.h.cursorRow
      newRow == oldRow - amount
      delta == newRow - s.top
      scroll == isWithinScrollRegion(s, oldRow) /\ delta < 0
      s1 == IF scroll THEN scrollLines(s, delta) ELSE s
      row == IF scroll THEN s.top ELSE newRow
  IN IF row # oldRow THEN ptySetCursorRow(s1, row) ELSE s1

\* faulty variant: delta >= 0, scrolling already when the move ends on the bottom row
ptyMoveCursorDown_ScrollOnZero(s, amount) ==
  LET oldRow == s.h.cursorRow
      newRow == oldRow + amount
      delta == newRow - s.bottom
      scroll == isWithinScrollRegion(s, oldRow) /\ delta >= 0
      s1 == IF scroll THEN scrollLines(s, delta) ELSE s
      row == IF scroll THEN s.bottom ELSE newRow
  IN IF row # oldRow THEN ptySetCursorRow(s1, row) ELSE s1

\* faulty variant: the row is not clamped to the bottom of the scroll region
ptyMoveCursorDown_NoClamp(s, amount) ==
  LET oldRow == s.h.cursorRow
      newRow == oldRow + amount
      delta == newRow - s.bottom
      scroll == isWithinScrollRegion(s, oldRow) /\ delta > 0
      s1 == IF scroll THEN scrollLines(s, delta) ELSE s
  IN IF newRow # oldRow THEN ptySetCursorRow(s1, newRow) ELSE s1

ptyMoveCursorDown(s, amount) ==
  LET oldRow == s.h.cursorRow
      newRow == oldRow + amount
      delta == newRow - s.bottom
      scroll == isWithinScrollRegion(s, oldRow) /\ delta > 0
      s1 == IF scroll THEN scrollLines(s, delta) ELSE s
      row == IF scroll THEN s.bottom ELSE newRow
  IN IF row # oldRow THEN ptySetCursorRow(s1, row) ELSE s1

\* faulty variant: the column stops at the left margin
ptyMoveCursorLeft_Clamped(s, amount) ==
  ptySetCursorColumn(s, IF ULess(s.h.cursorColumn, amount) THEN 0
                        ELSE s.h.cursorColumn - amount)

ptyMoveCursorLeft(s, amount) == ptySetCursorColumn(s, s.h.cursorColumn - amount)

ptyMoveCursorRight(s, amount) == ptySetCursorColumn(s, s.h.cursorColumn + amount)

\* store one cell of the grid
StoreCharacter(s, character, value) ==
  IF character \in DOMAIN s.g
  THEN [s EXCEPT !.g[character] = value]
  ELSE [s EXCEPT !.stray = TRUE]

setCharacter(s, row, column) ==
  LET oldRow == s.h.cursorRow
      oldColumn == s.h.cursorColumn
      mv == (row # oldRow) \/ (column # oldColumn)
      s1 == IF mv THEN ptySetCursorPosition(s, row, column) ELSE s
      wch == win_wch(s1.w)
      s2 == IF mv THEN ptySetCursorPosition(s1, oldRow, oldColumn) ELSE s1
  IN StoreCharacter(s2, ptyGetCharacter(s2.h, row, column), ToPtyCharacter(wch))

setCurrentCharacter(s) == setCharacter(s, s.h.cursorRow, s.h.cursorColumn)

getCurrentCharacter(s) == ptyGetCharacter(s.h, s.h.cursorRow, s.h.cursorColumn)

LibInsertLine(w) == winsdelln(w, 1)
LibDeleteLine(w) == winsdelln(w, -1)
LibInsertBlank(w) == winsch(w, " ")

ptyInsertLines(s, count) == [s EXCEPT !.w = Repeat(LibInsertLine, count, s.w)]

\* faulty variant: the loop runs once more than count
ptyDeleteLines_OnceMore(s, count) ==
  [s EXCEPT !.w = Repeat(LibDeleteLine, count + 1, s.w)]

ptyDeleteLines(s, count) == [s EXCEPT !.w = Repeat(LibDeleteLine, count, s.w)]

ptyDeleteCharacters(s, count) == [s EXCEPT !.w = Repeat(wdelch, count, s.w)]

\* faulty variant: the cell is sampled before insch() is called
ptyInsertCharacters_SampleFirst(s, count) ==
  LET end == ptyGetRowEnd(s.h, s.h.cursorRow)
      from == getCurrentCharacter(s)
      wch == ToPtyCharacter(win_wch(s.w))
      inserted == [s EXCEPT !.w = Repeat(LibInsertBlank, count, s.w)]
  IN IF from = FarAway
     THEN [setCurrentCharacter(inserted) EXCEPT !.stray = TRUE]
     ELSE LET to == IF from + count > end THEN end ELSE from + count
              s1 == moveCharacters(s, to, from, end - to)
              s2 == [s1 EXCEPT !.w = inserted.w]
              s3 == StoreCharacter(s2, from, wch)
          IN propagateCharacter(s3, from, to)

\* faulty variant: to is not clamped to the end of the row
ptyInsertCharacters_NoClamp(s, count) ==
  LET end == ptyGetRowEnd(s.h, s.h.cursorRow)
      from == getCurrentCharacter(s)
      inserted == [s EXCEPT !.w = Repeat(LibInsertBlank, count, s.w)]
  IN IF from = FarAway
     THEN [setCurrentCharacter(inserted) EXCEPT !.stray = TRUE]
     ELSE LET to == from + count
              s1 == IF end - to < 0 THEN [s EXCEPT !.stray = TRUE]
                    ELSE moveCharacters(s, to, from, end - to)
              s2 == [s1 EXCEPT !.w = inserted.w]
              s3 == setCurrentCharacter(s2)
          IN propagateCharacter(s3, from, to)

ptyInsertCharacters(s, count) ==
  LET end == ptyGetRowEnd(s.h, s.h.cursorRow)
      from == getCurrentCharacter(s)
      inserted == [s EXCEPT !.w = Repeat(LibInsertBlank, count, s.w)]
  IN IF from = FarAway
     THEN [setCurrentCharacter(inserted) EXCEPT !.stray = TRUE]
     ELSE LET to == IF from + count > end THEN end ELSE from + count
              s1 == moveCharacters(s, to, from, end - to)
              s2 == [s1 EXCEPT !.w = inserted.w]
              s3 == setCurrentCharacter(s2)
          IN propagateCharacter(s3, from, to)

\* faulty variant: the cell is sampled where the cursor is after the advance
ptyAddCharacter_SampleAfterAdvance(s, character) ==
  setCurrentCharacter(saveCursorPosition([s EXCEPT !.w = waddch(s.w, character)]))

\* faulty variant: the cursor is not read back after addch()
ptyAddCharacter_NoSave(s, character) ==
  LET row == s.h.cursorRow
      column == s.h.cursorColumn
      s1 == [s EXCEPT !.w = waddch(s.w, character)]
  IN setCharacter(s1, row, column)

ptyAddCharacter(s, character) ==
  LET row == s.h.cursorRow
      column == s.h.cursorColumn
      s1 == saveCursorPosition([s EXCEPT !.w = waddch(s.w, character)])
  IN setCharacter(s1, row, column)

ptySetAttributes(s, attributes) == [s EXCEPT !.w = wattrset(s.w, attributes)]
ptyAddAttributes(s, attributes) == [s EXCEPT !.w = wattron(s.w, attributes)]
ptyRemoveAttributes(s, attributes) == [s EXCEPT !.w = wattroff(s.w, attributes)]

\* faulty variant: the propagation stops at the end of the cursor's row
ptyClearToEndOfScreen_RowEnd(s) ==
  LET s1 == setCurrentCharacter([s EXCEPT !.w = wclrtobot(s.w)])
  IN propagateCharacter(s1, getCurrentCharacter(s1), ptyGetRowEnd(s1.h, s1.h.cursorRow))

ptyClearToEndOfScreen(s) ==
  LET s1 == setCurrentCharacter([s EXCEPT !.w = wclrtobot(s.w)])
  IN propagateCharacter(s1, getCurrentCharacter(s1), ptyGetScreenEnd(s1.h))

\* faulty variant: the cell under the cursor is propagated without being sampled
ptyClearToEndOfLine_NoSample(s) ==
  LET s1 == [s EXCEPT !.w = wclrtoeol(s.w)]
  IN propagateCharacter(s1, getCurrentCharacter(s1), ptyGetRowEnd(s1.h, s1.h.cursorRow))

ptyClearToEndOfLine(s) ==
  LET s1 == setCurrentCharacter([s EXCEPT !.w = wclrtoeol(s.w)])
  IN propagateCharacter(s1, getCurrentCharacter(s1), ptyGetRowEnd(s1.h, s1.h.cursorRow))

\* shmctl(segmentIdentifier, IPC_RMID, NULL); no caller uses what it returns
releaseSegment(s) == [s EXCEPT !.segs = shmctl_RMID(@, s.id)]

\* faulty variant: the segment found under the key is not released
allocateSegment_NoRelease(s, outcome) ==
  LET s0 == [s EXCEPT !.size = allocateSegmentSize]
      s1 == ptyGetSegmentIdentifier(s0)
      s3 == shmget(s1, outcome # "shmget")
  IN IF s3.id # 0 - 1
     THEN LET s4 == ptyAttachSegment(s3, outcome # "shmat")
          IN IF s4.h # NULL
             THEN [s4 EXCEPT !.result = 1]
             ELSE [releaseSegment(s4) EXCEPT !.result = 0]
     ELSE [s3 EXCEPT !.result = 0]

\* faulty variant: the segment that could not be attached is left behind
allocateSegment_KeepUnattached(s, outcome) ==
  LET s0 == [s EXCEPT !.size = allocateSegmentSize]
      found == LiveSegments(s0.segs) # {}
      s1 == ptyGetSegmentIdentifier(s0)
      s2 == IF found THEN releaseSegment(s1) ELSE s1
      s3 == shmget(s2, outcome # "shmget")
  IN IF s3.id # 0 - 1
     THEN LET s4 == ptyAttachSegment(s3, outcome # "shmat")
          IN IF s4.h # NULL
             THEN [s4 EXCEPT !.result = 1]
             ELSE [s4 EXCEPT !.result = 0]
     ELSE [s3 EXCEPT !.result = 0]

\* outcome says which system call, if any, fails
allocateSegment(s, outcome) ==
  LET s0 == [s EXCEPT !.size = allocateSegmentSize]
      found == LiveSegments(s0.segs) # {}
      s1 == ptyGetSegmentIdentifier(s0)
      s2 == IF found THEN releaseSegment(s1) ELSE s1
      s3 == shmget(s2, outcome # "shmget")
  IN IF s3.id # 0 - 1
     THEN LET s4 == ptyAttachSegment(s3, outcome # "shmat")
          IN IF s4.h # NULL
             THEN [s4 EXCEPT !.result = 1]
             ELSE [releaseSegment(s4) EXCEPT !.result = 0]
     ELSE [s3 EXCEPT !.result = 0]

\* initscr() hands back the existing stdscr when it is called again
ptyBeginScreen(s, outcome) ==
  IF outcome = "initscr" THEN [s EXCEPT !.result = 0]
  ELSE LET w == [(IF s.w = NULL THEN NewWindow ELSE s.w) EXCEPT !.scroll = TRUE]
           s1 == [s EXCEPT !.w = w, !.ended = FALSE, !.top = 0, !.bottom = w.maxy]
           s2 == allocateSegment(s1, outcome)
       IN IF s2.result = 1
          THEN [initializeHeader(s2) EXCEPT !.result = 1]
          ELSE [s2 EXCEPT !.ended = TRUE, !.result = 0]

\* faulty variant: the segment is unmapped and never marked for removal
ptyEndScreen_NoRelease(s) == ptyDetachSegment([s EXCEPT !.ended = TRUE])

ptyEndScreen(s) == releaseSegment(ptyDetachSegment([s EXCEPT !.ended = TRUE]))

----------------------------------------------------------------------------
(* The calls of the driving process *)

\* the arguments the driving process is drawn to call the mirror with
Targets == {<<0, 0>>, <<1, 0>>, <<1, 1>>, <<LINES - 1, COLS - 1>>, <<LINES, COLS>>}
Rows == {0, LINES - 1}
Columns == {0, COLS - 1}
Amounts == {0, 1, LINES + 1, UINT_MAX}
Counts == {0, 1, COLS}
Regions == {<<0, LINES - 1>>, <<1, LINES - 1>>, <<0, LINES - 2>>, <<1, LINES>>}
Characters == {"A"}
SetChoices == {{}, {"A_BOLD"}}
AddChoices == {{"A_REVERSE", "A_BLINK"}}
RemoveChoices == {{"A_BOLD"}}
\* how a ptyBeginScreen goes: all well, or the named call fails
Outcomes == {"ok", "initscr", "shmget", "shmat"}

\* the mirror is usable: the last ptyBeginScreen succeeded, no ptyEndScreen
\* followed it, and the process is alive
Attached == segmentHeader # NULL /\ ~isendwin /\ ~crashed

State ==
  [h |-> segmentHeader, g |-> grid, w |-> stdscr,
   top |-> scrollRegionTop, bottom |-> scrollRegionBottom, size |-> segmentSize,
   log |-> <<>>, stray |-> FALSE,
   id |-> segmentIdentifier, segs |-> segments, ended |-> isendwin, result |-> 0]

\* The arguments are what the terminal itself permits: a position inside the
\* screen, a scroll region 0 <= top < bottom < height, a relative move that ends
\* inside the screen or, for a vertical one by less than 2^31 that starts inside
\* the scroll region, at its boundary.
InRangeCall(name, a, b) ==
  LET h == segmentHeader IN
  CASE name = "ptySetCursorPosition" ->
         a >= 0 /\ a < h.screenHeight /\ b >= 0 /\ b < h.screenWidth
    [] name = "ptySetCursorRow" -> a >= 0 /\ a < h.screenHeight
    [] name = "ptySetCursorColumn" -> a >= 0 /\ a < h.screenWidth
    [] name = "ptySetScrollRegion" -> 0 <= a /\ a < b /\ b < h.screenHeight
    [] name = "ptyMoveCursorUp" ->
         a >= 0 /\ (a <= h.cursorRow \/ isWithinScrollRegion(State, h.cursorRow))
    [] name = "ptyMoveCursorDown" ->
         a >= 0 /\ (h.cursorRow + a < h.screenHeight
                     \/ isWithinScrollRegion(State, h.cursorRow))
    [] name = "ptyMoveCursorLeft" -> a >= 0 /\ a <= h.cursorColumn
    [] name = "ptyMoveCursorRight" -> a >= 0 /\ h.cursorColumn + a < h.screenWidth
    [] OTHER -> TRUE

Called(name, a, b) ==
  /\ steps < MaxSteps
  /\ steps' = steps + 1
  /\ op' = [name |-> name, a |-> a, b |-> b]
  /\ inRange' = IF name = "ptyBeginScreen" THEN (a = 1 \/ inRange)
                ELSE inRange /\ InRangeCall(name, a, b)
  /\ UNCHANGED <<stack, atCall, atEntry, observed>>
  /\ UNCHANGED <<scr, brl, prefs, ses, alerts, nav>>

\* The function runs from its call to its return in one step.  The call
\* returns with the state t it computed.  A store outside the grid
\* either lands in the slack of the segment's last page or kills the process.
Returns(t) ==
  /\ segmentHeader' = t.h
  /\ grid' = t.g
  /\ stdscr' = t.w
  /\ scrollRegionTop' = t.top
  /\ scrollRegionBottom' = t.bottom
  /\ scrolled' = t.log
  /\ crashed' \in (IF t.stray THEN BOOLEAN ELSE {FALSE})
  /\ segmentSize' = t.size
  /\ segmentIdentifier' = t.id
  /\ segments' = t.segs
  /\ isendwin' = t.ended

\* op records what the call returned and how it went
CallBeginScreen(outcome) ==
  /\ ~crashed
  /\ LET t == ptyBeginScreen(State, outcome)
     IN Called("ptyBeginScreen", t.result, outcome) /\ Returns(t)

CallEndScreen ==
  Attached /\ Called("ptyEndScreen", 0, 0)
  /\ Returns(ptyEndScreen(State))

CallSetCursorPosition(row, column) ==
  Attached /\ Called("ptySetCursorPosition", row, column)
  /\ Returns(ptySetCursorPosition(State, row, column))

CallSetCursorRow(row) ==
  Attached /\ Called("ptySetCursorRow", row, 0)
  /\ Returns(ptySetCursorRow(State, row))

CallSetCursorColumn(column) ==
  Attached /\ Called("ptySetCursorColumn", column, 0)
  /\ Returns(ptySetCursorColumn(State, column))

CallSetScrollRegion(top, bottom) ==
  Attached /\ Called("ptySetScrollRegion", top, bottom)
  /\ Returns(ptySetScrollRegion(State, top, bottom))

CallMoveCursorUp(amount) ==
  Attached /\ Called("ptyMoveCursorUp", amount, 0)
  /\ Returns(ptyMoveCursorUp(State, amount))

CallMoveCursorDown(amount) ==
  Attached /\ Called("ptyMoveCursorDown", amount, 0)
  /\ Returns(ptyMoveCursorDown(State, amount))

CallMoveCursorLeft(amount) ==
  Attached /\ Called("ptyMoveCursorLeft", amount, 0)
  /\ Returns(ptyMoveCursorLeft(State, amount))

CallMoveCursorRight(amount) ==
  Attached /\ Called("ptyMoveCursorRight", amount, 0)
  /\ Returns(ptyMoveCursorRight(State, amount))

CallInsertLines(count) ==
  Attached /\ Called("ptyInsertLines", count, 0)
  /\ Returns(ptyInsertLines(State, count))

CallDeleteLines(count) ==
  Attached /\ Called("ptyDeleteLines", count, 0)
  /\ Returns(ptyDeleteLines(State, count))

CallInsertCharacters(count) ==
  Attached /\ Called("ptyInsertCharacters", count, 0)
  /\ Returns(ptyInsertCharacters(State, count))

CallDeleteCharacters(count) ==
  Attached /\ Called("ptyDeleteCharacters", count, 0)
  /\ Returns(ptyDeleteCharacters(State, count))

CallAddCharacter(character) ==
  Attached /\ Called("ptyAddCharacter", character, 0)
  /\ Returns(ptyAddCharacter(State, character))

CallSetAttributes(attributes) ==
  Attached /\ Called("ptySetAttributes", attributes, 0)
  /\ Returns(ptySetAttributes(State, attributes))

CallAddAttributes(attributes) ==
  Attached /\ Called("ptyAddAttributes", attributes, 0)
  /\ Returns(ptyAddAttributes(State, attributes))

CallRemoveAttributes(attributes) ==
  Attached /\ Called("ptyRemoveAttributes", attributes, 0)
  /\ Returns(ptyRemoveAttributes(State, attributes))

CallClearToEndOfScreen ==
  Attached /\ Called("ptyClearToEndOfScreen", 0, 0)
  /\ Returns(ptyClearToEndOfScreen(State))

CallClearToEndOfLine ==
  Attached /\ Called("ptyClearToEndOfLine", 0, 0)
  /\ Returns(ptyClearToEndOfLine(State))

Init ==
  /\ segmentHeader = NULL
  /\ grid = <<>>
  /\ segmentSize = 0
  /\ scrollRegionTop = 0
  /\ scrollRegionBottom = 0
  /\ stdscr = NULL
  /\ isendwin = FALSE
  /\ segmentIdentifier = 0
  /\ segments = <<>>
  /\ crashed = FALSE
  /\ op = [name |-> "none", a |-> 0, b |-> 0]
  /\ scrolled = <<>>
  /\ inRange = TRUE
  /\ steps = 0
  /\ stack = <<>>
  /\ atCall = NULL
  /\ atEntry = NULL
  /\ observed = NULL
  /\ scr = NULL /\ brl = NULL /\ prefs = NULL /\ ses = NULL
  /\ alerts = {} /\ nav = NULL

Next ==
  \/ \E outcome \in Outcomes : CallBeginScreen(outcome)
  \/ CallEndScreen
  \/ \E p \in Targets : CallSetCursorPosition(p[1], p[2])
  \/ \E row \in Rows : CallSetCursorRow(row)
  \/ \E column \in Columns : CallSetCursorColumn(column)
  \/ \E r \in Regions : CallSetScrollRegion(r[1], r[2])
  \/ \E amount \in Amounts : CallMoveCursorUp(amount)
  \/ \E amount \in Amounts : CallMoveCursorDown(amount)
  \/ \E amount \in Amounts : CallMoveCursorLeft(amount)
  \/ \E amount \in Amounts : CallMoveCursorRight(amount)
  \/ \E count \in Counts : CallInsertLines(count)
  \/ \E count \in Counts : CallDeleteLines(count)
  \/ \E count \in Counts : CallInsertCharacters(count)
  \/ \E count \in Counts : CallDeleteCharacters(count)
  \/ \E character \in Characters : CallAddCharacter(character)
  \/ \E attributes \in SetChoices : CallSetAttributes(attributes)
  \/ \E attributes \in AddChoices : CallAddAttributes(attributes)
  \/ \E attributes \in RemoveChoices : CallRemoveAttributes(attributes)
  \/ CallClearToEndOfScreen
  \/ CallClearToEndOfLine

Spec == Init /\ [][Next]_vars

----------------------------------------------------------------------------
(* The writer statement by statement, and a reader.  The exported functions *)
(* that store the header's cursor run one statement a step, a call of       *)
(* curses or a store to the segment; stack holds the frames of the          *)
(* functions entered and not yet left, the innermost last.  A reader that   *)
(* has the segment mapped reads the header's cursor between any two steps.  *)

\* the number of calls of the driving process explored statement by statement
MaxCalls == 4

\* the arguments of these calls
StepTargets == {<<1, 1>>, <<0, COLS - 1>>}
StepAttributes == {{a} : a \in Attributes}

\* the frame of a function: at is the statement it executes next, the others
\* are its parameters and locals; todo are the stores of the statement it is in
Frame(fn, at) ==
  [fn |-> fn, at |-> at, row |-> 0, column |-> 0, oldRow |-> 0, oldColumn |-> 0,
   move |-> FALSE, wch |-> Blank, character |-> "", todo |-> {}]

Top == stack[Len(stack)]
Callers == SubSeq(stack, 1, Len(stack) - 1)
In(fn, at) == ~crashed /\ stack # <<>> /\ Top.fn = fn /\ Top.at = at
Continue(at) == [stack EXCEPT ![Len(stack)].at = at]

\* segmentHeader->cursorRow and segmentHeader->cursorColumn, as a reader gets them
Cursor(h) == [row |-> h.cursorRow, column |-> h.cursorColumn]

\* a statement leaves the header h, the grid g, the window w and the frames st;
\* it is no call and no read of the reader
Statement(h, g, w, st) ==
  /\ segmentHeader' = h
  /\ grid' = g
  /\ stdscr' = w
  /\ stack' = st
  /\ UNCHANGED <<segmentSize, scrollRegionTop, scrollRegionBottom, isendwin,
                 segmentIdentifier, segments, scrolled, inRange, op, steps,
                 atCall, observed>>
  /\ UNCHANGED <<scr, brl, prefs, ses, alerts, nav>>

\* the driving process calls an exported function
Entered(name, a, b) ==
  /\ Attached /\ stack = <<>>
  /\ steps < MaxCalls
  /\ steps' = steps + 1
  /\ op' = [name |-> name, a |-> a, b |-> b]
  /\ atCall' = State
  /\ observed' = NULL
  /\ UNCHANGED <<segmentHeader, grid, segmentSize, scrollRegionTop,
                 scrollRegionBottom, isendwin, segmentIdentifier, segments,
                 crashed, scrolled, inRange, atEntry>>
  /\ UNCHANGED <<scr, brl, prefs, ses, alerts, nav>>

\* ptyBeginScreen, once: no reader has the segment before it returns
WriterBeginScreen ==
  /\ segmentHeader = NULL /\ stack = <<>> /\ ~crashed
  /\ steps < MaxCalls
  /\ steps' = steps + 1
  /\ LET t == ptyBeginScreen(State, "ok")
     IN op' = [name |-> "ptyBeginScreen", a |-> t.result, b |-> "ok"] /\ Returns(t)
  /\ UNCHANGED <<inRange, stack, atCall, atEntry, observed>>
  /\ UNCHANGED <<scr, brl, prefs, ses, alerts, nav>>

\* ptySetAttributes touches the curses window only
WriterSetAttributes(attributes) ==
  /\ Entered("ptySetAttributes", attributes, 0)
  /\ stdscr' = wattrset(stdscr, attributes)
  /\ stack' = stack

\* the frames of ptySetCursorPosition and of saveCursorPosition on entry
ptySetCursorPositionFrame(row, column) ==
  [Frame("ptySetCursorPosition", "move") EXCEPT !.row = row, !.column = column]

saveCursorPositionFrame ==
  [Frame("saveCursorPosition", "stores") EXCEPT !.todo = {"cursorRow", "cursorColumn"}]

\* faulty variant: the cell is read wherever the curses cursor happens to be
setCharacterFrame_NeverMove(row, column) ==
  [Frame("setCharacter", "in_wch") EXCEPT
     !.row = row, !.column = column,
     !.oldRow = segmentHeader.cursorRow, !.oldColumn = segmentHeader.cursorColumn,
     !.move = FALSE]

\* faulty variant: oldRow and oldColumn are initialized the wrong way round
setCharacterFrame_OldSwapped(row, column) ==
  LET oldRow == segmentHeader.cursorColumn
      oldColumn == segmentHeader.cursorRow
      move == (row # oldRow) \/ (column # oldColumn)
  IN [Frame("setCharacter", IF move THEN "there" ELSE "in_wch") EXCEPT
        !.row = row, !.column = column,
        !.oldRow = oldRow, !.oldColumn = oldColumn, !.move = move]

\* setCharacter on entry: oldRow, oldColumn and move are initialized
setCharacterFrame(row, column) ==
  LET oldRow == segmentHeader.cursorRow
      oldColumn == segmentHeader.cursorColumn
      move == (row # oldRow) \/ (column # oldColumn)
  IN [Frame("setCharacter", IF move THEN "there" ELSE "in_wch") EXCEPT
        !.row = row, !.column = column,
        !.oldRow = oldRow, !.oldColumn = oldColumn, !.move = move]

EnterSetCursorPosition(row, column) ==
  /\ Entered("ptySetCursorPosition", row, column)
  /\ stack' = <<ptySetCursorPositionFrame(row, column)>>
  /\ stdscr' = stdscr

\* row and column are initialized from the header
EnterAddCharacter(character) ==
  /\ Entered("ptyAddCharacter", character, 0)
  /\ stack' = <<[Frame("ptyAddCharacter", "addch") EXCEPT
                   !.character = character,
                   !.row = segmentHeader.cursorRow,
                   !.column = segmentHeader.cursorColumn]>>
  /\ stdscr' = stdscr

EnterClearToEndOfLine ==
  /\ Entered("ptyClearToEndOfLine", 0, 0)
  /\ stack' = <<Frame("ptyClearToEndOfLine", "clrtoeol")>>
  /\ stdscr' = stdscr

\* move(row, column);
SetCursorPositionMove ==
  /\ In("ptySetCursorPosition", "move")
  /\ Statement(segmentHeader, grid, wmove(stdscr, Top.row, Top.column),
               [stack EXCEPT ![Len(stack)].at = "stores",
                             ![Len(stack)].todo = {"cursorRow", "cursorColumn"}])
  /\ UNCHANGED <<crashed, atEntry>>

\* what a store of the function leaves in the field
StoredValue(frame, field) ==
  IF frame.fn = "saveCursorPosition"
  THEN IF field = "cursorRow" THEN stdscr.cury ELSE stdscr.curx
  ELSE IF field = "cursorRow" THEN frame.row ELSE frame.column

\* segmentHeader->cursorRow = ...; segmentHeader->cursorColumn = ...; nothing
\* orders the two stores for another process, and the function returns after
\* the second
StoreCursor(field) ==
  /\ ~crashed /\ stack # <<>>
  /\ Top.fn \in {"ptySetCursorPosition", "saveCursorPosition"} /\ Top.at = "stores"
  /\ field \in Top.todo
  /\ Statement([segmentHeader EXCEPT ![field] = StoredValue(Top, field)], grid, stdscr,
               IF Top.todo = {field} THEN Callers
               ELSE [stack EXCEPT ![Len(stack)].todo = @ \ {field}])
  /\ UNCHANGED <<crashed, atEntry>>

\* addch(character); saveCursorPosition();
AddCharacterAddch ==
  /\ In("ptyAddCharacter", "addch")
  /\ Statement(segmentHeader, grid, waddch(stdscr, Top.character),
               Append(Continue("setCharacter"), saveCursorPositionFrame))
  /\ UNCHANGED <<crashed, atEntry>>

\* setCharacter(row, column, NULL); ptyAddCharacter returns when it does
AddCharacterSetCharacter ==
  /\ In("ptyAddCharacter", "setCharacter")
  /\ Statement(segmentHeader, grid, stdscr,
               Append(Callers, setCharacterFrame(Top.row, Top.column)))
  /\ atEntry' = State
  /\ UNCHANGED crashed

\* if (move) ptySetCursorPosition(row, column);
SetCharacterThere ==
  /\ In("setCharacter", "there")
  /\ Statement(segmentHeader, grid, stdscr,
               Append(Continue("in_wch"), ptySetCursorPositionFrame(Top.row, Top.column)))
  /\ UNCHANGED <<crashed, atEntry>>

\* in_wch(&wch);
SetCharacterRead ==
  /\ In("setCharacter", "in_wch")
  /\ Statement(segmentHeader, grid, stdscr,
               [stack EXCEPT ![Len(stack)].wch = win_wch(stdscr),
                             ![Len(stack)].at = IF Top.move THEN "back" ELSE "store"])
  /\ UNCHANGED <<crashed, atEntry>>

\* if (move) ptySetCursorPosition(oldRow, oldColumn);
SetCharacterBack ==
  /\ In("setCharacter", "back")
  /\ Statement(segmentHeader, grid, stdscr,
               Append(Continue("store"),
                      ptySetCursorPositionFrame(Top.oldRow, Top.oldColumn)))
  /\ UNCHANGED <<crashed, atEntry>>

\* character->text = wch.chars[0]; ... character->dim = wch.attr & A_DIM; the
\* seven stores to the cell are one step
SetCharacterStore ==
  /\ In("setCharacter", "store")
  /\ LET t == StoreCharacter(State, ptyGetCharacter(segmentHeader, Top.row, Top.column),
                             ToPtyCharacter(Top.wch))
     IN /\ Statement(segmentHeader, t.g, stdscr, Callers)
        /\ crashed' \in (IF t.stray THEN BOOLEAN ELSE {FALSE})
  /\ UNCHANGED atEntry

\* clrtoeol();
ClearToEndOfLineClrtoeol ==
  /\ In("ptyClearToEndOfLine", "clrtoeol")
  /\ Statement(segmentHeader, grid, wclrtoeol(stdscr), Continue("setCurrentCharacter"))
  /\ UNCHANGED <<crashed, atEntry>>

\* from = setCurrentCharacter(&to);
ClearToEndOfLineSetCharacter ==
  /\ In("ptyClearToEndOfLine", "setCurrentCharacter")
  /\ Statement(segmentHeader, grid, stdscr,
               Append(Continue("propagateCharacter"),
                      setCharacterFrame(segmentHeader.cursorRow, segmentHeader.cursorColumn)))
  /\ atEntry' = State
  /\ UNCHANGED crashed

\* propagateCharacter(from, to); the stores to the row are one step
ClearToEndOfLinePropagate ==
  /\ In("ptyClearToEndOfLine", "propagateCharacter")
  /\ LET t == propagateCharacter(State, getCurrentCharacter(State),
                                 ptyGetRowEnd(segmentHeader, segmentHeader.cursorRow))
     IN /\ Statement(segmentHeader, t.g, stdscr, Callers)
        /\ crashed' \in (IF t.stray THEN BOOLEAN ELSE {FALSE})
  /\ UNCHANGED atEntry

\* a reader reads cursorRow and cursorColumn while the writer is in a function
ReaderReadsCursor ==
  /\ segmentHeader # NULL /\ stack # <<>>
  /\ observed' = Cursor(segmentHeader)
  /\ UNCHANGED <<segmentHeader, grid, segmentSize, scrollRegionTop, scrollRegionBottom,
                 stdscr, isendwin, segmentIdentifier, segments, crashed, op, scrolled,
                 inRange, steps, stack, atCall, atEntry>>
  /\ UNCHANGED <<scr, brl, prefs, ses, alerts, nav>>

NextStatement ==
  \/ WriterBeginScreen
  \/ \E attributes \in StepAttributes : WriterSetAttributes(attributes)
  \/ \E p \in StepTargets : EnterSetCursorPosition(p[1], p[2])
  \/ \E character \in Characters : EnterAddCharacter(character)
  \/ EnterClearToEndOfLine
  \/ SetCursorPositionMove
  \/ \E field \in {"cursorRow", "cursorColumn"} : StoreCursor(field)
  \/ AddCharacterAddch
  \/ AddCharacterSetCharacter
  \/ SetCharacterThere
  \/ SetCharacterRead
  \/ SetCharacterBack
  \/ SetCharacterStore
  \/ ClearToEndOfLineClrtoeol
  \/ ClearToEndOfLineSetCharacter
  \/ ClearToEndOfLinePropagate
  \/ ReaderReadsCursor

Stepwise == Init /\ [][NextStatement]_vars

----------------------------------------------------------------------------
(* Properties *)

CursorRow == segmentHeader.cursorRow
CursorColumn == segmentHeader.cursorColumn
Height == segmentHeader.screenHeight
Width == segmentHeader.screenWidth

\* the header's cursor lies inside the screen
CursorInScreen ==
  /\ CursorRow >= 0 /\ CursorRow < Height
  /\ CursorColumn >= 0 /\ CursorColumn < Width

\* the grid cell of (row, column)
CellAt(g, row, column) == g[(row * Width) + column]

\* the grid cell that mirrors a cell of the curses window
Sampled(wch) ==
  [text |-> wch.text,
   blink |-> "A_BLINK" \in wch.attr, bold |-> "A_BOLD" \in wch.attr,
   underline |-> "A_UNDERLINE" \in wch.attr, reverse |-> "A_REVERSE" \in wch.attr,
   standout |-> "A_STANDOUT" \in wch.attr, dim |-> "A_DIM" \in wch.attr]

\* row lies within the active scroll region, compared as unsigned ints
WithinRegion(row) == ~ULess(row, scrollRegionTop) /\ ~ULess(scrollRegionBottom, row)

Min(a, b) == IF a < b THEN a ELSE b
Max(a, b) == IF a > b THEN a ELSE b

\* C1: after any sequence of mirror operations with in-range arguments that
\* follows a successful ptyBeginScreen, every grid cell equals the cell of the
\* curses window at the same row and column.
C1_MirrorReflectsLibrary ==
  (Attached /\ inRange) =>
    \A p \in Positions(stdscr) : CellAt(grid, p[1], p[2]) = Sampled(stdscr.cells[p])

\* C2: right after a successful ptyBeginScreen every one of the height*width
\* cells is a space with no attribute set, and the header's cursor is the
\* cursor of the curses window.
C2_BlankAfterBegin ==
  (op.name = "ptyBeginScreen" /\ op.a = 1) =>
    /\ DOMAIN grid = 0 .. ((Height * Width) - 1)
    /\ \A i \in DOMAIN grid :
         grid[i] = [text |-> " ", blink |-> FALSE, bold |-> FALSE, underline |-> FALSE,
                    reverse |-> FALSE, standout |-> FALSE, dim |-> FALSE]
    /\ CursorRow = stdscr.cury
    /\ CursorColumn = stdscr.curx

\* a successful begin that found the window's cursor off the origin and off the
\* diagonal, and the window not blank
C2_Witness ==
  /\ op.name = "ptyBeginScreen" /\ op.a = 1
  /\ stdscr.cury # stdscr.curx
  /\ \E p \in Positions(stdscr) : stdscr.cells[p] # Blank

HeaderLayout(h) ==
  <<h.headerSize, h.segmentSize, h.characterSize, h.charactersOffset,
    h.screenHeight, h.screenWidth>>

\* C3: while a segment is mapped, segmentSize = headerSize + characterSize *
\* screenHeight * screenWidth and charactersOffset = headerSize, and no cursor,
\* scroll or edit operation changes any of these six fields.
C3_HeaderLayout ==
  /\ [](segmentHeader # NULL =>
          /\ segmentHeader.segmentSize =
               segmentHeader.headerSize
                 + (segmentHeader.characterSize * Height * Width)
          /\ segmentHeader.charactersOffset = segmentHeader.headerSize)
  /\ [][(segmentHeader # NULL /\ op'.name \notin {"ptyBeginScreen", "ptyEndScreen"}) =>
          HeaderLayout(segmentHeader') = HeaderLayout(segmentHeader)]_vars

\* a mapped segment after a move that scrolled
C3_Witness ==
  /\ segmentHeader # NULL
  /\ op.name \in {"ptyMoveCursorUp", "ptyMoveCursorDown"}
  /\ scrolled # <<>>

\* C4 as stated: whatever the amounts, the header's cursor stays inside the screen.
C4_CursorAlwaysInScreen == segmentHeader # NULL => CursorInScreen

\* C4: after any sequence of calls with in-range arguments that follows a
\* successful ptyBeginScreen, 0 <= cursorRow < screenHeight and
\* 0 <= cursorColumn < screenWidth.
C4_CursorInScreenWhenInRange == (segmentHeader # NULL /\ inRange) => CursorInScreen

\* an in-range move down, past the bottom of the scroll region, was clamped
C4_Witness ==
  /\ segmentHeader # NULL /\ inRange
  /\ op.name = "ptyMoveCursorDown" /\ op.a > 1
  /\ scrolled # <<>>
  /\ CursorRow = scrollRegionBottom

\* C5: ptyInsertCharacters(n) with the cursor at column c and 0 < n < w - c moves
\* the cells [c, w-n) of the row to [c+n, w), leaves [0, c) and every other row
\* alone, and sets [c, c+n) to the cell sampled at the window's cursor after the
\* insert.
C5_InsertCharactersShifts ==
  [][(/\ Attached /\ CursorInScreen
      /\ op'.name = "ptyInsertCharacters"
      /\ 0 < op'.a /\ op'.a < Width - CursorColumn) =>
       LET n == op'.a
           r == CursorRow
           c == CursorColumn
           fill == Sampled(win_wch(stdscr'))
       IN /\ \A j \in (c + n) .. (Width - 1) : CellAt(grid', r, j) = CellAt(grid, r, j - n)
          /\ \A j \in 0 .. (c - 1) : CellAt(grid', r, j) = CellAt(grid, r, j)
          /\ \A j \in c .. (c + n - 1) : CellAt(grid', r, j) = fill
          /\ \A q \in 0 .. (Height - 1), j \in 0 .. (Width - 1) :
               q # r => CellAt(grid', q, j) = CellAt(grid, q, j)]_vars

\* an insert in the middle of a row, text before the cursor and text shifted
C5_Witness ==
  /\ Attached /\ CursorInScreen
  /\ op.name = "ptyInsertCharacters"
  /\ 0 < op.a /\ op.a < Width - CursorColumn
  /\ CursorColumn > 0
  /\ CellAt(grid, CursorRow, CursorColumn - 1).text # " "
  /\ CellAt(grid, CursorRow, CursorColumn + op.a).text # " "

\* C6 as stated: the cells [c, w-n) move right by n and the cells
\* [max(c, w-n), w) all equal the sampled fill cell.
C6_InsertCharactersAsStated ==
  [][(Attached /\ CursorInScreen /\ op'.name = "ptyInsertCharacters") =>
       LET n == op'.a
           r == CursorRow
           c == CursorColumn
           fill == Sampled(win_wch(stdscr'))
       IN /\ \A j \in c .. (Width - n - 1) : CellAt(grid', r, j + n) = CellAt(grid, r, j)
          /\ \A j \in Max(c, Width - n) .. (Width - 1) : CellAt(grid', r, j) = fill]_vars

\* C6: for n >= 1, the cells [c, w-n) move right by n and the cells
\* [c, min(c+n, w)) all equal the sampled fill cell.
C6_InsertCharactersFill ==
  [][(Attached /\ CursorInScreen /\ op'.name = "ptyInsertCharacters" /\ op'.a >= 1) =>
       LET n == op'.a
           r == CursorRow
           c == CursorColumn
           fill == Sampled(win_wch(stdscr'))
       IN /\ \A j \in c .. (Width - n - 1) : CellAt(grid', r, j + n) = CellAt(grid, r, j)
          /\ \A j \in c .. (Min(c + n, Width) - 1) : CellAt(grid', r, j) = fill]_vars

\* an insert that leaves, in the last column, a cell that is not the fill cell
C6_Witness ==
  /\ Attached /\ CursorInScreen
  /\ op.name = "ptyInsertCharacters"
  /\ 0 < op.a /\ op.a < Width - CursorColumn
  /\ CellAt(grid, CursorRow, Width - 1) # CellAt(grid, CursorRow, CursorColumn)

\* C7: ptyClearToEndOfLine with the cursor at (r, c) sets the cells [c, w) of row
\* r to the cell sampled at the window's cursor after the clear and changes
\* neither [0, c), nor another row, nor the header's cursor.
C7_ClearToEndOfLine ==
  [][(Attached /\ CursorInScreen /\ op'.name = "ptyClearToEndOfLine") =>
       LET r == CursorRow
           c == CursorColumn
           fill == Sampled(win_wch(stdscr'))
       IN /\ \A j \in c .. (Width - 1) : CellAt(grid', r, j) = fill
          /\ \A j \in 0 .. (c - 1) : CellAt(grid', r, j) = CellAt(grid, r, j)
          /\ \A q \in 0 .. (Height - 1), j \in 0 .. (Width - 1) :
               q # r => CellAt(grid', q, j) = CellAt(grid, q, j)
          /\ segmentHeader'.cursorRow = r
          /\ segmentHeader'.cursorColumn = c]_vars

\* a clear in the middle of a row that has text before the cursor, with text on
\* another row
C7_Witness ==
  /\ Attached /\ CursorInScreen
  /\ op.name = "ptyClearToEndOfLine"
  /\ CursorColumn > 0 /\ CursorColumn < Width - 1
  /\ CellAt(grid, CursorRow, CursorColumn - 1).text # " "
  /\ \E q \in 0 .. (Height - 1), j \in 0 .. (Width - 1) :
       q # CursorRow /\ CellAt(grid, q, j).text # " "

\* C8: ptyClearToEndOfScreen with the cursor at (r, c) sets every cell from
\* (r, c) to the end of the grid, in row-major order, to the cell sampled at the
\* window's cursor after the clear and changes no cell before (r, c).
C8_ClearToEndOfScreen ==
  [][(Attached /\ CursorInScreen /\ op'.name = "ptyClearToEndOfScreen") =>
       LET from == (CursorRow * Width) + CursorColumn
           fill == Sampled(win_wch(stdscr'))
       IN /\ DOMAIN grid' = DOMAIN grid
          /\ \A i \in DOMAIN grid :
               grid'[i] = IF i >= from THEN fill ELSE grid[i]]_vars

\* a clear from the middle of a row that is not the last, with text before it
C8_Witness ==
  /\ Attached /\ CursorInScreen
  /\ op.name = "ptyClearToEndOfScreen"
  /\ CursorRow < Height - 1 /\ CursorColumn > 0
  /\ \E i \in DOMAIN grid :
       i < (CursorRow * Width) + CursorColumn /\ grid[i].text # " "

\* C9: a relative vertical move whose starting row and candidate row both lie
\* within the scroll region never calls scrollLines and sets the header's
\* cursorRow to the candidate row.
C9_MoveWithinRegion ==
  [][/\ (Attached /\ op'.name = "ptyMoveCursorUp"
           /\ WithinRegion(CursorRow) /\ WithinRegion(CursorRow - op'.a)) =>
          (scrolled' = <<>> /\ segmentHeader'.cursorRow = CursorRow - op'.a)
     /\ (Attached /\ op'.name = "ptyMoveCursorDown"
           /\ WithinRegion(CursorRow) /\ WithinRegion(CursorRow + op'.a)) =>
          (scrolled' = <<>> /\ segmentHeader'.cursorRow = CursorRow + op'.a)]_vars

\* a move up by one onto the top row of a scroll region that is not the screen
C9_Witness ==
  /\ Attached
  /\ op.name = "ptyMoveCursorUp" /\ op.a = 1
  /\ scrollRegionTop > 0
  /\ CursorRow = scrollRegionTop
  /\ WithinRegion(CursorRow + 1)
  /\ scrolled = <<>>

C12_BeginScreenFailure ==
  [][op'.name = "ptyBeginScreen" =>
       /\ (op'.a = 1) <=> (op'.b = "ok")
       /\ op'.a = 0 =>
            \A i \in DOMAIN segments : segments'[i].written = segments[i].written
       /\ op'.b \in {"shmget", "shmat"} =>
            /\ op'.a = 0
            /\ isendwin'
            /\ \A i \in DOMAIN segments' \ DOMAIN segments :
                 segments'[i].removed /\ ~segments'[i].written
            /\ \/ segmentHeader' = NULL
               \/ segmentHeader' = segmentHeader /\ grid' = grid]_vars

\* a ptyBeginScreen whose shmat failed: the segment it created is marked,
\* unwritten and unattached, and the curses session is ended
C12_Witness ==
  /\ op.name = "ptyBeginScreen" /\ op.b = "shmat" /\ op.a = 0
  /\ isendwin
  /\ segmentHeader = NULL
  /\ Len(segments) >= 1
  /\ segments[Len(segments)].removed
  /\ ~segments[Len(segments)].written
  /\ segments[Len(segments)].nattch = 0

\* C13: a successful ptyBeginScreen attaches a segment it has just created and
\* segmentIdentifier names that segment until ptyEndScreen, which detaches it
\* and marks it for removal; after a ptyEndScreen no segment is left that is
\* not marked for removal.
C13_EndScreenReleases ==
  [][/\ (op'.name = "ptyBeginScreen" /\ op'.a = 1) =>
          /\ segmentIdentifier' \in DOMAIN segments' \ DOMAIN segments
          /\ segments'[segmentIdentifier'].nattch = 1
     /\ (Attached /\ Attached' /\ ~(op'.name = "ptyBeginScreen" /\ op'.a = 1)) =>
          segmentIdentifier' = segmentIdentifier
     /\ op'.name = "ptyEndScreen" =>
          /\ segmentHeader' = NULL
          /\ segmentIdentifier' = segmentIdentifier
          /\ segments'[segmentIdentifier] =
               [segments[segmentIdentifier] EXCEPT !.nattch = @ - 1, !.removed = TRUE]
          /\ \A i \in DOMAIN segments :
               i # segmentIdentifier => segments'[i] = segments[i]
          /\ LiveSegments(segments') = {}]_vars

\* the second of two matched pairs has ended: both segments are marked and
\* attached nowhere
C13_Witness ==
  /\ op.name = "ptyEndScreen"
  /\ Len(segments) = 2
  /\ \A i \in DOMAIN segments : segments[i].removed /\ segments[i].nattch = 0

\* C14: ptyAddCharacter with the header's cursor at (r, c) inside the screen
\* leaves in the grid cell (r, c) what the curses window holds at (r, c), sets
\* the header's cursor to the window's cursor after its advance, and changes no
\* other grid cell; 'A' written at (0, 0) with no attribute makes the cell
\* {'A', no attribute} and the cursor (0, 1).
C14_AddCharacter ==
  [][(Attached /\ CursorInScreen /\ op'.name = "ptyAddCharacter") =>
       LET r == CursorRow
           c == CursorColumn
       IN /\ CellAt(grid', r, c) = Sampled(stdscr'.cells[<<r, c>>])
          /\ segmentHeader'.cursorRow = stdscr'.cury
          /\ segmentHeader'.cursorColumn = stdscr'.curx
          /\ \A q \in 0 .. (Height - 1), j \in 0 .. (Width - 1) :
               <<q, j>> # <<r, c>> => CellAt(grid', q, j) = CellAt(grid, q, j)
          /\ (r = 0 /\ c = 0 /\ stdscr.attrs = {} /\ Width > 1) =>
               /\ CellAt(grid', 0, 0) = [Initializer EXCEPT !.text = op'.a]
               /\ segmentHeader'.cursorRow = 0
               /\ segmentHeader'.cursorColumn = 1]_vars

\* a bold character written in the last column of a row above the last: the
\* cursor wrapped to the next row and the cell is in the grid
C14_Witness ==
  /\ Attached /\ CursorInScreen
  /\ op.name = "ptyAddCharacter"
  /\ CursorColumn = 0 /\ CursorRow > 0
  /\ CellAt(grid, CursorRow - 1, Width - 1) = [Initializer EXCEPT !.text = op.a, !.bold = TRUE]

\* C15: with a header written, for every row < screenHeight and column <
\* screenWidth the cell's address charactersOffset + characterSize * (row *
\* screenWidth + column) is at least charactersOffset, the whole cell ends at
\* or before segmentSize, the cell is one of the grid, and two distinct
\* coordinates have distinct addresses (there are as many addresses as
\* coordinates).
C15_CellAddressing ==
  segmentHeader # NULL =>
    LET h == segmentHeader
        Coordinates == (0 .. (h.screenHeight - 1)) \X (0 .. (h.screenWidth - 1))
    IN /\ \A p \in Coordinates :
            /\ CellAddress(h, p[1], p[2]) =
                 h.charactersOffset + (h.characterSize * ((p[1] * h.screenWidth) + p[2]))
            /\ CellAddress(h, p[1], p[2]) >= h.charactersOffset
            /\ CellAddress(h, p[1], p[2]) + h.characterSize <= h.segmentSize
            /\ ptyGetCharacter(h, p[1], p[2]) \in DOMAIN grid
       /\ Cardinality({CellAddress(h, p[1], p[2]) : p \in Coordinates})
            = Cardinality(Coordinates)

\* a header just written: the last cell of the grid ends exactly at segmentSize
C15_Witness ==
  /\ Attached
  /\ op.name = "ptyBeginScreen" /\ op.a = 1
  /\ Height > 1 /\ Width > 1
  /\ CellAddress(segmentHeader, Height - 1, Width - 1) + segmentHeader.characterSize
       = segmentHeader.segmentSize

\* the step put the header's cursor at (row, column) and the curses cursor there
\* too when (row, column) is in the window, and did nothing else: no scroll, no
\* grid cell, no other header field, no scroll region, no window cell changed
CursorSetTo(row, column) ==
  /\ segmentHeader' = [segmentHeader EXCEPT !.cursorRow = row, !.cursorColumn = column]
  /\ (row >= 0 /\ row <= stdscr.maxy /\ column >= 0 /\ column <= stdscr.maxx) =>
       (stdscr'.cury = row /\ stdscr'.curx = column)
  /\ stdscr' = [stdscr EXCEPT !.cury = stdscr'.cury, !.curx = stdscr'.curx]
  /\ scrolled' = <<>>
  /\ grid' = grid
  /\ scrollRegionTop' = scrollRegionTop
  /\ scrollRegionBottom' = scrollRegionBottom

\* C16: ptySetCursorPosition(row, column), ptySetCursorRow(row) and
\* ptySetCursorColumn(column) move the curses cursor and set the header's
\* cursor to exactly the coordinates asked for (the other one kept by the last
\* two); they call scrollLines never and change neither a grid cell nor the
\* scroll region.
C16_SetCursorPosition ==
  [][/\ (Attached /\ op'.name = "ptySetCursorPosition") => CursorSetTo(op'.a, op'.b)
     /\ (Attached /\ op'.name = "ptySetCursorRow") => CursorSetTo(op'.a, CursorColumn)
     /\ (Attached /\ op'.name = "ptySetCursorColumn") => CursorSetTo(CursorRow, op'.a)]_vars

\* ptySetCursorRow took the cursor to the last row of a grid that has text,
\* in a column that is not the first
C16_Witness ==
  /\ Attached
  /\ op.name = "ptySetCursorRow" /\ op.a = Height - 1
  /\ CursorRow = Height - 1 /\ CursorColumn > 0
  /\ stdscr.cury = CursorRow /\ stdscr.curx = CursorColumn
  /\ \E i \in DOMAIN grid : grid[i].text # " "

\* C17: ptyMoveCursorLeft(a) and ptyMoveCursorRight(a) call scrollLines never,
\* whatever the scroll region and a; the header's cursorColumn becomes the old
\* one minus, resp. plus, a, and cursorRow, the rest of the header and every
\* grid cell stay as they were.
C17_HorizontalMove ==
  [][/\ (Attached /\ op'.name = "ptyMoveCursorLeft") =>
          CursorSetTo(CursorRow, CursorColumn - op'.a)
     /\ (Attached /\ op'.name = "ptyMoveCursorRight") =>
          CursorSetTo(CursorRow, CursorColumn + op'.a)]_vars

\* a move left by more than the column, from the bottom row of a scroll region
\* that is not the whole screen, over a grid that has text
C17_Witness ==
  /\ segmentHeader # NULL /\ ~isendwin
  /\ op.name = "ptyMoveCursorLeft" /\ op.a > Width
  /\ CursorColumn < 0 - 1
  /\ CursorRow = scrollRegionBottom /\ scrollRegionBottom < Height - 1
  /\ \E i \in DOMAIN grid : grid[i].text # " "

\* C18: ptySetScrollRegion(top, bottom) sets scrollRegionTop and
\* scrollRegionBottom, hands the region to curses, and changes neither a grid
\* cell nor the header; the statics keep the region until the next
\* ptySetScrollRegion or ptyBeginScreen, and a ptyMoveCursorUp or
\* ptyMoveCursorDown scrolls exactly when its starting row is within that region
\* and its candidate row is beyond that region's boundary.
C18_SetScrollRegion ==
  [][/\ (Attached /\ op'.name = "ptySetScrollRegion") =>
          /\ scrollRegionTop' = op'.a
          /\ scrollRegionBottom' = op'.b
          /\ stdscr' = wsetscrreg(stdscr, op'.a, op'.b)
          /\ (0 <= op'.a /\ op'.a < op'.b /\ op'.b <= stdscr.maxy) =>
               (stdscr'.regtop = op'.a /\ stdscr'.regbottom = op'.b)
          /\ grid' = grid
          /\ segmentHeader' = segmentHeader
          /\ scrolled' = <<>>
     /\ (op'.name \notin {"ptySetScrollRegion", "ptyBeginScreen"}) =>
          /\ scrollRegionTop' = scrollRegionTop
          /\ scrollRegionBottom' = scrollRegionBottom
     /\ (Attached /\ op'.name = "ptyMoveCursorUp") =>
          ((scrolled' # <<>>) <=>
             (WithinRegion(CursorRow) /\ (CursorRow - op'.a) - scrollRegionTop < 0))
     /\ (Attached /\ op'.name = "ptyMoveCursorDown") =>
          ((scrolled' # <<>>) <=>
             (WithinRegion(CursorRow) /\ (CursorRow + op'.a) - scrollRegionBottom > 0))]_vars

\* a move down was stopped, and scrolled, at the bottom of a region that
\* ptySetScrollRegion had ended one row above the screen's last
C18_Witness ==
  /\ Attached
  /\ op.name = "ptyMoveCursorDown"
  /\ scrolled # <<>>
  /\ scrollRegionTop = 0 /\ scrollRegionBottom = Height - 2
  /\ stdscr.regbottom = Height - 2
  /\ CursorRow = Height - 2

\* C19: ptyInsertLines(count), ptyDeleteLines(count) and
\* ptyDeleteCharacters(count) leave the curses window as count calls of
\* insertln(), deleteln(), resp. delch() leave it, and write neither a grid cell
\* nor a header field.
C19_LibraryOnlyEdits ==
  [][/\ (Attached /\ op'.name = "ptyInsertLines") =>
          /\ stdscr' = Repeat(LibInsertLine, op'.a, stdscr)
          /\ grid' = grid /\ segmentHeader' = segmentHeader
     /\ (Attached /\ op'.name = "ptyDeleteLines") =>
          /\ stdscr' = Repeat(LibDeleteLine, op'.a, stdscr)
          /\ grid' = grid /\ segmentHeader' = segmentHeader
     /\ (Attached /\ op'.name = "ptyDeleteCharacters") =>
          /\ stdscr' = Repeat(wdelch, op'.a, stdscr)
          /\ grid' = grid /\ segmentHeader' = segmentHeader]_vars

\* one line was deleted at the top row, which had text: the window's row is
\* blank now and the grid still has the text
C19_Witness ==
  /\ Attached /\ CursorInScreen
  /\ op.name = "ptyDeleteLines" /\ op.a = 1
  /\ CursorRow = 0
  /\ CellAt(grid, 0, 0).text # " "
  /\ stdscr.cells[<<0, 0>>] = Blank

\* C20: ptyInsertCharacters(n) with the cursor at column c of row r and n >= w -
\* c shifts no cell, makes every cell of row r at columns [c, w) the cell
\* sampled at the window's cursor after the insert, and writes nothing else:
\* [0, c), the other rows and the memory past the grid stay as they were.
C20_InsertCharactersClamped ==
  [][(/\ Attached /\ CursorInScreen
      /\ op'.name = "ptyInsertCharacters"
      /\ op'.a >= Width - CursorColumn) =>
       LET r == CursorRow
           c == CursorColumn
           fill == Sampled(win_wch(stdscr'))
       IN /\ \A j \in c .. (Width - 1) : CellAt(grid', r, j) = fill
          /\ \A j \in 0 .. (c - 1) : CellAt(grid', r, j) = CellAt(grid, r, j)
          /\ \A q \in 0 .. (Height - 1), j \in 0 .. (Width - 1) :
               q # r => CellAt(grid', q, j) = CellAt(grid, q, j)
          /\ DOMAIN grid' = DOMAIN grid
          /\ ~crashed'
          /\ segmentHeader' = segmentHeader]_vars

\* as many characters as the screen is wide were inserted, with the bold
\* attribute set, after a cell that has text: the rest of the row is the bold
\* fill cell
C20_Witness ==
  /\ Attached /\ CursorInScreen
  /\ op.name = "ptyInsertCharacters" /\ op.a = Width
  /\ CursorColumn > 0 /\ CursorColumn < Width - 1
  /\ CellAt(grid, CursorRow, CursorColumn - 1).text # " "
  /\ \A j \in CursorColumn .. (Width - 1) :
       CellAt(grid, CursorRow, j) = [Initializer EXCEPT !.bold = TRUE]

(***************************************************************************)
(* The navigation commands (Programs/cmd_navigation.c).  They move the     *)
(* braille window, whose top-left corner is (ses->winx, ses->winy), over   *)
(* the screen described by scr; the pty screen above is not involved.      *)
(*                                                                         *)
(* scr.rows, scr.cols, scr.posx and scr.posy are short, ses->winx and      *)
(* ses->winy are int, brl.textRows is unsigned int: an expression with     *)
(* brl.textRows in it is unsigned, and is kept by its signed reading as    *)
(* above.  The session shows text (ses->displayMode is 0), so rows are     *)
(* compared by their text; braille is not contracted; the screen cursor is *)
(* shown when the preference says so.                                      *)
(***************************************************************************)

\* The largest screen the commands are run on.
NavRows == 3
NavCols == 4

\* core.c: how far a full window shift moves (no overlap is configured)
fullWindowShift == Max(brl.textColumns, 1)
\* core.c: how far a vertical window shift moves
verticalWindowShift == IF brl.textRows > 1 THEN brl.textRows ELSE 5

\* scr.c: width characters of row top, from column left
readScreen(left, top, width) ==
  [i \in 0..(width - 1) |-> scr.text[top][left + i]]

\* scr_utils.c: a row of characters is all spaces
isAllSpaceCharacters(characters, count) ==
  \A i \in 0..(count - 1) : characters[i] = " "

\* the window while a command is handled: where it is, the value of the
\* handler's oldwiny, the alerts raised, the value the last function returned
Window(oldwiny, raised) ==
  [winx |-> ses.winx, winy |-> ses.winy, oldwiny |-> oldwiny,
   alerts |-> raised, result |-> 0]

\* alert.c
alert(n, identifier) == [n EXCEPT !.alerts = @ \cup {identifier}]

\* core.c: the window moves left by amount, as far as the left margin
shiftBrailleWindowLeft(n, amount) ==
  IF n.winx < 1 \/ amount < 1 THEN [n EXCEPT !.result = 0]
  ELSE [n EXCEPT !.winx = @ - Min(n.winx, amount), !.result = 1]

\* core.c: the window moves right by amount if that leaves it on the screen
shiftBrailleWindowRight(n, amount) ==
  IF amount < 1 \/ n.winx + amount >= scr.cols THEN [n EXCEPT !.result = 0]
  ELSE [n EXCEPT !.winx = @ + amount, !.result = 1]

\* core.c: the rightmost window of the row
placeBrailleWindowRight(n) ==
  [n EXCEPT !.winx = ((scr.cols - 1) \div brl.textColumns) * brl.textColumns]

getWindowLength == brl.textColumns

canMoveUp(n) == n.winy > 0

\* the faulty variant: without the cast to int the comparison is unsigned
canMoveDown_Unsigned(n) == ULess(n.winy, scr.rows - brl.textRows)

\* the difference is cast to int: the comparison is signed
canMoveDown(n) == n.winy < scr.rows - brl.textRows

\* canMoveWindow(): canMoveUp is passed with amount -1, canMoveDown with 1
canMoveWindow(n, amount) ==
  IF amount < 0 THEN canMoveUp(n) ELSE canMoveDown(n)

\* the do-while loop of toDifferentLine, from its first statement
RECURSIVE toDifferentLineLoop(_, _, _, _, _)
toDifferentLineLoop(n, amount, from, width, characters1) ==
  LET moved == [n EXCEPT !.winy = @ + amount]
      characters2 == readScreen(from, moved.winy, width)
  IN  IF \/ characters1 # characters2
         \/ /\ prefs.showScreenCursor
            /\ scr.posy = moved.winy
            /\ scr.posx >= from
            /\ scr.posx < from + width
      THEN [moved EXCEPT !.result = 1]
      ELSE LET skipped == alert(moved, "ALERT_SKIP")
           IN  IF canMoveWindow(skipped, amount)
               THEN toDifferentLineLoop(skipped, amount, from, width,
                                        characters1)
               ELSE [alert(skipped, "ALERT_BOUNCE") EXCEPT !.result = 0]

toDifferentLine(n, amount, from, width) ==
  IF canMoveWindow(n, amount)
  THEN toDifferentLineLoop(n, amount, from, width,
                           readScreen(from, n.winy, width))
  ELSE [alert(n, "ALERT_BOUNCE") EXCEPT !.result = 0]

upDifferentLine(n) == toDifferentLine(n, 0 - 1, 0, scr.cols)

downDifferentLine(n) == toDifferentLine(n, 1, 0, scr.cols)

upOneLine(n) ==
  IF canMoveUp(n) THEN [n EXCEPT !.winy = @ - 1] ELSE alert(n, "ALERT_BOUNCE")

downOneLine(n) ==
  IF canMoveDown(n) THEN [n EXCEPT !.winy = @ + 1]
  ELSE alert(n, "ALERT_BOUNCE")

upLine(n) == IF prefs.skipIdenticalLines THEN upDifferentLine(n) ELSE upOneLine(n)

downLine(n) ==
  IF prefs.skipIdenticalLines THEN downDifferentLine(n) ELSE downOneLine(n)

\* the end of handleNavigationCommands, after the switch
motionToLeft(n, toleft) ==
  IF n.winy # n.oldwiny /\ toleft THEN [n EXCEPT !.winx = 0] ELSE n

\* handleNavigationCommands for BRL_CMD_TOP_LEFT, TOP, BOT_LEFT, BOT, WINUP,
\* WINDN, LNUP and LNDN; toleft is command & BRL_FLG_MOTION_TOLEFT.  The
\* operands of MIN and MAX are not negative where they are evaluated, so
\* their unsigned comparison is the comparison of the values.
handleNavigationCommands(n, command, toleft) ==
  LET flagged == toleft \/ command \in {"BRL_CMD_TOP_LEFT", "BRL_CMD_BOT_LEFT"}
      bottom == Max(scr.rows, brl.textRows) - brl.textRows
      doTopBottom(row, ok) ==
        IF ok THEN [n EXCEPT !.winy = row]
        ELSE IF flagged /\ n.winx > 0 THEN [n EXCEPT !.oldwiny = 0 - 1]
        ELSE alert(n, "ALERT_BOUNCE")
      done ==
        CASE command \in {"BRL_CMD_TOP_LEFT", "BRL_CMD_TOP"} ->
               doTopBottom(0, n.winy > 0)
          [] command \in {"BRL_CMD_BOT_LEFT", "BRL_CMD_BOT"} ->
               doTopBottom(bottom, n.winy < bottom)
          [] command = "BRL_CMD_WINUP" ->
               IF canMoveUp(n)
               THEN [n EXCEPT !.winy = @ - Min(verticalWindowShift, n.winy)]
               ELSE alert(n, "ALERT_BOUNCE")
          [] command = "BRL_CMD_WINDN" ->
               IF canMoveDown(n)
               THEN [n EXCEPT
                       !.winy = @ + Min(verticalWindowShift,
                                        scr.rows - brl.textRows - n.winy)]
               ELSE alert(n, "ALERT_BOUNCE")
          [] command = "BRL_CMD_LNUP" -> upOneLine(n)
          [] command = "BRL_CMD_LNDN" -> downOneLine(n)
  IN  motionToLeft(done, flagged)

\* the faulty variant: the line found is not stepped back from the blank line
previousParagraphScan_NoStepBack(l) ==
  LET isBlankLine ==
        isAllSpaceCharacters(readScreen(0, l.line, scr.cols), scr.cols)
      state ==
        CASE l.state = "STARTING" ->
               IF isBlankLine THEN "FINDING_LAST_LINE"
               ELSE "START_LINE_NOT_BLANK"
          [] l.state = "START_LINE_NOT_BLANK" ->
               IF isBlankLine THEN "FINDING_LAST_LINE"
               ELSE "FINDING_FIRST_LINE"
          [] l.state = "FINDING_LAST_LINE" ->
               IF ~isBlankLine THEN "FINDING_FIRST_LINE" ELSE l.state
          [] l.state = "FINDING_FIRST_LINE" -> l.state
  IN  IF l.state = "FINDING_FIRST_LINE" /\ isBlankLine
      THEN [l EXCEPT !.at = "foundFirstLine"]
      ELSE IF l.line = 0 THEN [l EXCEPT !.state = state, !.at = "after"]
      ELSE [l EXCEPT !.state = state, !.line = @ - 1]

\* BRL_CMD_PRPGRPH: one pass of its while loop, on the locals state and line;
\* at is where the pass leaves: in the loop, after it, or at foundFirstLine
previousParagraphScan(l) ==
  LET isBlankLine ==
        isAllSpaceCharacters(readScreen(0, l.line, scr.cols), scr.cols)
      state ==
        CASE l.state = "STARTING" ->
               IF isBlankLine THEN "FINDING_LAST_LINE"
               ELSE "START_LINE_NOT_BLANK"
          [] l.state = "START_LINE_NOT_BLANK" ->
               IF isBlankLine THEN "FINDING_LAST_LINE"
               ELSE "FINDING_FIRST_LINE"
          [] l.state = "FINDING_LAST_LINE" ->
               IF ~isBlankLine THEN "FINDING_FIRST_LINE" ELSE l.state
          [] l.state = "FINDING_FIRST_LINE" -> l.state
  IN  IF l.state = "FINDING_FIRST_LINE" /\ isBlankLine
      THEN [l EXCEPT !.line = @ + 1, !.at = "foundFirstLine"]
      ELSE IF l.line = 0 THEN [l EXCEPT !.state = state, !.at = "after"]
      ELSE [l EXCEPT !.state = state, !.line = @ - 1]

\* toPreviousNonblankWindow: one pass of its loop, on the locals oldX, oldY
\* and tuneLimit; at is where the pass leaves: in the loop, or at the return.
\* Below 0 the value of tuneLimit is never told apart, so it stops at -1.
toPreviousNonblankWindow(n, l) ==
  LET shifted == shiftBrailleWindowLeft(n, fullWindowShift)
      restored == [shifted EXCEPT !.winx = l.oldX, !.winy = l.oldY]
      wrapped == IF l.tuneLimit > 0 THEN alert(shifted, "ALERT_WRAP_UP")
                 ELSE shifted
      tuned == [l EXCEPT !.tuneLimit = Max(@ - 1, 0 - 1)]
      placed == placeBrailleWindowRight(upLine(wrapped))
      look(w, k) ==
        LET charCount == Min(getWindowLength, scr.cols - w.winx)
            characters == readScreen(w.winx, w.winy, charCount)
            nonblank == {i \in 0..(charCount - 1) : characters[i] # " "}
            last == IF nonblank = {} THEN 0 - 1
                    ELSE CHOOSE i \in nonblank : \A j \in nonblank : j <= i
            charIndex == IF /\ prefs.showScreenCursor
                            /\ scr.posy = w.winy
                            /\ scr.posx >= 0
                            /\ scr.posx < w.winx + charCount
                         THEN Max(last, scr.posx - w.winx)
                         ELSE last
        IN  [n |-> w,
             l |-> [k EXCEPT !.at = IF charIndex >= 0 THEN "return"
                                    ELSE "while"]]
  IN  IF shifted.result = 0
      THEN IF shifted.winy = 0
           THEN [n |-> alert(restored, "ALERT_BOUNCE"),
                 l |-> [l EXCEPT !.at = "return"]]
           ELSE look(placed, tuned)
      ELSE look(shifted, l)

\* toNextNonblankWindow: one pass of its loop; ses->winy is compared with an
\* unsigned int
toNextNonblankWindow(n, l) ==
  LET shifted == shiftBrailleWindowRight(n, fullWindowShift)
      restored == [shifted EXCEPT !.winx = l.oldX, !.winy = l.oldY]
      wrapped == IF l.tuneLimit > 0 THEN alert(shifted, "ALERT_WRAP_DOWN")
                 ELSE shifted
      tuned == [l EXCEPT !.tuneLimit = Max(@ - 1, 0 - 1)]
      placed == [downLine(wrapped) EXCEPT !.winx = 0]
      look(w, k) ==
        LET charCount == Min(getWindowLength, scr.cols - w.winx)
            characters == readScreen(w.winx, w.winy, charCount)
            nonblank == {i \in 0..(charCount - 1) : characters[i] # " "}
            first == IF nonblank = {} THEN charCount
                     ELSE CHOOSE i \in nonblank : \A j \in nonblank : i <= j
            charIndex == IF /\ prefs.showScreenCursor
                            /\ scr.posy = w.winy
                            /\ scr.posx < scr.cols
                            /\ scr.posx >= w.winx
                         THEN Min(first, scr.posx - w.winx)
                         ELSE first
        IN  [n |-> w,
             l |-> [k EXCEPT !.at = IF charIndex < charCount THEN "return"
                                    ELSE "while"]]
  IN  IF shifted.result = 0
      THEN IF ~ULess(shifted.winy, scr.rows - brl.textRows)
           THEN [n |-> alert(restored, "ALERT_BOUNCE"),
                 l |-> [l EXCEPT !.at = "return"]]
           ELSE look(placed, tuned)
      ELSE look(shifted, l)

\* The pty screen is not running while the navigation commands are explored.
PtyUnchanged ==
  UNCHANGED <<segmentHeader, grid, segmentSize, scrollRegionTop,
              scrollRegionBottom, stdscr, isendwin, segmentIdentifier,
              segments, crashed, op, scrolled, inRange, steps, stack, atCall,
              atEntry, observed>>

\* A command without a loop is handled from its entry to its return.
HandleCommand(command, toleft) ==
  /\ nav.pc = "idle"
  /\ LET n == handleNavigationCommands(Window(ses.winy, {}), command, toleft)
     IN  /\ ses' = [winx |-> n.winx, winy |-> n.winy]
         /\ alerts' = n.alerts
  /\ nav' = [pc |-> "idle", command |-> command, toleft |-> toleft,
             locals |-> NULL]
  /\ UNCHANGED <<scr, brl, prefs>>
  /\ PtyUnchanged

\* A command with a loop is entered: BRL_CMD_PRPGRPH initialises its locals,
\* BRL_CMD_PRNBWIN and BRL_CMD_NXNBWIN call their function, which does.
EnterCommand(command, toleft) ==
  /\ nav.pc = "idle"
  /\ nav' = [pc |-> command, command |-> command, toleft |-> toleft,
             locals |->
               IF command = "BRL_CMD_PRPGRPH"
               THEN [state |-> "STARTING", line |-> ses.winy, at |-> "while"]
               ELSE [oldX |-> ses.winx, oldY |-> ses.winy, tuneLimit |-> 3,
                     at |-> "while"]]
  /\ alerts' = {}
  /\ UNCHANGED <<scr, brl, prefs, ses>>
  /\ PtyUnchanged

\* One pass of the loop of BRL_CMD_PRPGRPH.
PreviousParagraphScan ==
  /\ nav.pc = "BRL_CMD_PRPGRPH" /\ nav.locals.at = "while"
  /\ nav' = [nav EXCEPT !.locals = previousParagraphScan(nav.locals)]
  /\ UNCHANGED <<scr, brl, prefs, ses, alerts>>
  /\ PtyUnchanged

\* BRL_CMD_PRPGRPH has left its loop: the window is set, the handler returns.
PreviousParagraphEnd ==
  /\ nav.pc = "BRL_CMD_PRPGRPH" /\ nav.locals.at # "while"
  /\ LET n == Window(ses.winy, alerts)
         done == IF \/ nav.locals.at = "foundFirstLine"
                    \/ nav.locals.state = "FINDING_FIRST_LINE"
                 THEN [n EXCEPT !.winy = nav.locals.line, !.winx = 0]
                 ELSE alert(n, "ALERT_BOUNCE")
         end == motionToLeft(done, nav.toleft)
     IN  /\ ses' = [winx |-> end.winx, winy |-> end.winy]
         /\ alerts' = end.alerts
  /\ nav' = [nav EXCEPT !.pc = "idle"]
  /\ UNCHANGED <<scr, brl, prefs>>
  /\ PtyUnchanged

\* One pass of the loop of toPreviousNonblankWindow.
PreviousNonblankWindowPass ==
  /\ nav.pc = "BRL_CMD_PRNBWIN" /\ nav.locals.at = "while"
  /\ LET pass == toPreviousNonblankWindow(Window(nav.locals.oldY, alerts),
                                          nav.locals)
     IN  /\ ses' = [winx |-> pass.n.winx, winy |-> pass.n.winy]
         /\ alerts' = pass.n.alerts
         /\ nav' = [nav EXCEPT !.locals = pass.l]
  /\ UNCHANGED <<scr, brl, prefs>>
  /\ PtyUnchanged

\* One pass of the loop of toNextNonblankWindow.
NextNonblankWindowPass ==
  /\ nav.pc = "BRL_CMD_NXNBWIN" /\ nav.locals.at = "while"
  /\ LET pass == toNextNonblankWindow(Window(nav.locals.oldY, alerts),
                                      nav.locals)
     IN  /\ ses' = [winx |-> pass.n.winx, winy |-> pass.n.winy]
         /\ alerts' = pass.n.alerts
         /\ nav' = [nav EXCEPT !.locals = pass.l]
  /\ UNCHANGED <<scr, brl, prefs>>
  /\ PtyUnchanged

\* The function has returned: the end of the handler.
NonblankWindowReturn ==
  /\ nav.pc \in {"BRL_CMD_PRNBWIN", "BRL_CMD_NXNBWIN"}
  /\ nav.locals.at = "return"
  /\ LET n == motionToLeft(Window(nav.locals.oldY, alerts), nav.toleft)
     IN  ses' = [winx |-> n.winx, winy |-> n.winy]
  /\ nav' = [nav EXCEPT !.pc = "idle"]
  /\ UNCHANGED <<scr, brl, prefs, alerts>>
  /\ PtyUnchanged

\* The screens, displays, preferences and windows the commands start from.
\* A screen has one row or NavRows rows, each blank or with text in its last
\* column, and its cursor on the first column of its last row; a display has
\* one or two rows of two cells, so some screens have fewer rows than the
\* display; the window starts on a row it may be on, in column 0 or 1.
InitNavigation ==
  /\ segmentHeader = NULL /\ grid = <<>> /\ segmentSize = 0
  /\ scrollRegionTop = 0 /\ scrollRegionBottom = 0 /\ stdscr = NULL
  /\ isendwin = FALSE /\ segmentIdentifier = 0 /\ segments = <<>>
  /\ crashed = FALSE /\ op = [name |-> "none", a |-> 0, b |-> 0]
  /\ scrolled = <<>> /\ inRange = TRUE /\ steps = 0 /\ stack = <<>>
  /\ atCall = NULL /\ atEntry = NULL /\ observed = NULL
  /\ \E rows \in {1, NavRows} :
       \E text \in [0..(rows - 1) ->
                      { [x \in 0..(NavCols - 1) |-> " "],
                        [x \in 0..(NavCols - 1) |->
                           IF x = NavCols - 1 THEN "a" ELSE " "] }] :
         scr = [rows |-> rows, cols |-> NavCols, posx |-> 0,
                posy |-> rows - 1, text |-> text]
  /\ brl \in [textRows : {1, 2}, textColumns : {2}]
  /\ prefs \in [skipIdenticalLines : BOOLEAN, showScreenCursor : BOOLEAN]
  /\ ses \in [winx : {0, 1}, winy : 0..Max(scr.rows - brl.textRows, 0)]
  /\ alerts = {}
  /\ nav = [pc |-> "idle", command |-> "none", toleft |-> FALSE,
            locals |-> NULL]

NextCommand ==
  \/ \E command \in { "BRL_CMD_TOP_LEFT", "BRL_CMD_TOP", "BRL_CMD_BOT_LEFT",
                      "BRL_CMD_BOT", "BRL_CMD_WINUP", "BRL_CMD_WINDN",
                      "BRL_CMD_LNUP", "BRL_CMD_LNDN" }, toleft \in BOOLEAN :
       HandleCommand(command, toleft)
  \/ \E command \in {"BRL_CMD_PRPGRPH", "BRL_CMD_PRNBWIN", "BRL_CMD_NXNBWIN"},
        toleft \in BOOLEAN :
       EnterCommand(command, toleft)
  \/ PreviousParagraphScan
  \/ PreviousParagraphEnd
  \/ PreviousNonblankWindowPass
  \/ NextNonblankWindowPass
  \/ NonblankWindowReturn

\* A command that has been entered keeps running: the handler is not
\* interrupted, so a step it can take is taken.
Navigation ==
  /\ InitNavigation
  /\ [][NextCommand]_vars
  /\ WF_vars(PreviousParagraphScan \/ PreviousParagraphEnd
             \/ PreviousNonblankWindowPass \/ NextNonblankWindowPass
             \/ NonblankWindowReturn)

\* C21: a ptyMoveCursorUp or ptyMoveCursorDown that starts on a row outside the
\* scroll region (row < top or row > bottom) never calls scrollLines, whatever
\* the amount, and leaves in the header's cursorRow the candidate row, old row
\* minus resp. plus the amount, unclamped, also when that row is inside the
\* region or beyond its far side.
C21_MoveOutsideRegion ==
  [][/\ (Attached /\ op'.name = "ptyMoveCursorUp" /\ ~WithinRegion(CursorRow)) =>
          (scrolled' = <<>> /\ segmentHeader'.cursorRow = CursorRow - op'.a)
     /\ (Attached /\ op'.name = "ptyMoveCursorDown" /\ ~WithinRegion(CursorRow)) =>
          (scrolled' = <<>> /\ segmentHeader'.cursorRow = CursorRow + op'.a)]_vars

\* a move down from row 0, above a scroll region that starts on row 1, by more
\* than the screen's height: the row is past the bottom of the region and
\* nothing was scrolled
C21_Witness ==
  /\ Attached
  /\ op.name = "ptyMoveCursorDown" /\ op.a > Height
  /\ scrollRegionTop > 0
  /\ CursorRow - op.a = 0
  /\ CursorRow > scrollRegionBottom
  /\ scrolled = <<>>

\* the step left the header and the cursor of the curses window as they were
CursorKept ==
  /\ segmentHeader' = segmentHeader
  /\ stdscr'.cury = stdscr.cury
  /\ stdscr'.curx = stdscr.curx

\* the step changed nothing of the mirror and nothing of the curses window
NothingChanged ==
  /\ segmentHeader' = segmentHeader
  /\ grid' = grid
  /\ stdscr' = stdscr
  /\ scrollRegionTop' = scrollRegionTop
  /\ scrollRegionBottom' = scrollRegionBottom

\* C22 as stated: a vertical move by 0 changes nothing and does not scroll, and a
\* move down by any a > 0 from the bottom row of the scroll region (up from its
\* top row) scrolls by a and leaves the header and the curses cursor alone.
C22_MoveAtEdgeAnyAmount ==
  [][/\ (Attached /\ op'.name \in {"ptyMoveCursorUp", "ptyMoveCursorDown"} /\ op'.a = 0) =>
          (scrolled' = <<>> /\ NothingChanged)
     /\ (Attached /\ op'.name = "ptyMoveCursorDown" /\ op'.a # 0
           /\ WithinRegion(CursorRow) /\ CursorRow = scrollRegionBottom) =>
          (scrolled' = <<op'.a>> /\ CursorKept)
     /\ (Attached /\ op'.name = "ptyMoveCursorUp" /\ op'.a # 0
           /\ WithinRegion(CursorRow) /\ CursorRow = scrollRegionTop) =>
          (scrolled' = <<0 - op'.a>> /\ CursorKept)]_vars

\* C22: a vertical move whose resulting row is the starting row writes neither
\* the header nor the curses cursor; a move by 0 changes nothing and does not
\* scroll, and a move down by 0 < a < 2^31 from the bottom row of the scroll
\* region (up from its top row) scrolls by a, once, and leaves cursorRow,
\* cursorColumn and the curses cursor as they were.
C22_MoveAtEdge ==
  [][/\ (Attached /\ op'.name \in {"ptyMoveCursorUp", "ptyMoveCursorDown"}) =>
          /\ segmentHeader'.cursorRow = CursorRow => CursorKept
          /\ segmentHeader'.cursorColumn = CursorColumn
          /\ op'.a = 0 => (scrolled' = <<>> /\ NothingChanged)
     /\ (Attached /\ op'.name = "ptyMoveCursorDown" /\ op'.a > 0
           /\ WithinRegion(CursorRow) /\ CursorRow = scrollRegionBottom) =>
          (scrolled' = <<op'.a>> /\ CursorKept)
     /\ (Attached /\ op'.name = "ptyMoveCursorUp" /\ op'.a > 0
           /\ WithinRegion(CursorRow) /\ CursorRow = scrollRegionTop) =>
          (scrolled' = <<0 - op'.a>> /\ CursorKept)]_vars

\* a move down by one from the bottom row of a scroll region that ends above
\* the screen's last row, in a column that is not the first: the region was
\* scrolled by one and the cursor is where it was
C22_Witness ==
  /\ Attached
  /\ op.name = "ptyMoveCursorDown" /\ op.a = 1
  /\ scrolled = <<1>>
  /\ scrollRegionBottom < Height - 1
  /\ CursorRow = scrollRegionBottom /\ CursorColumn > 0
  /\ stdscr.cury = CursorRow /\ stdscr.curx = CursorColumn

\* C24: after every completed call that follows a successful ptyBeginScreen, the
\* arguments of every call having kept the position inside the screen, the
\* header's (cursorRow, cursorColumn) is the cursor of the curses window.
C24_CursorSynchronised ==
  (Attached /\ inRange) =>
    (CursorRow = stdscr.cury /\ CursorColumn = stdscr.curx)

\* a character was written in the last cell of the screen, in range: the window
\* scrolled and its cursor, off the origin, is the header's
C24_Witness ==
  /\ Attached /\ inRange
  /\ op.name = "ptyAddCharacter"
  /\ CursorRow = Height - 1 /\ CursorColumn = 0
  /\ stdscr.cury = Height - 1 /\ stdscr.curx = 0
  /\ stdscr.cells[<<Height - 2, Width - 1>>].text = op.a

\* what the function called last leaves when it runs in one step
InOneStep ==
  CASE op.name = "ptySetCursorPosition" -> ptySetCursorPosition(atCall, op.a, op.b)
    [] op.name = "ptyAddCharacter" -> ptyAddCharacter(atCall, op.a)
    [] op.name = "ptyClearToEndOfLine" -> ptyClearToEndOfLine(atCall)
    [] op.name = "ptySetAttributes" -> ptySetAttributes(atCall, op.a)

\* a function that ran statement by statement has left the header, the grid and
\* the window as it leaves them in one step
StatementsAgree ==
  (atCall # NULL /\ stack = <<>> /\ ~crashed) =>
    /\ segmentHeader = InOneStep.h
    /\ grid = InOneStep.g
    /\ stdscr = InOneStep.w

\* the step is the last statement of setCharacter
SetCharacterReturns == In("setCharacter", "store") /\ Len(stack') < Len(stack)

\* C23: setCharacter(row, column) relocates the cursor exactly when (row,
\* column) is not the header's cursor, and then reads the cell with both cursors
\* at (row, column); when it returns the curses window, cursor included, and the
\* header's cursor are what they were on entry, no grid cell but (row, column)
\* has changed, and that cell has the text of the window's cell and each of
\* its six attribute fields set exactly when the window's cell has that
\* attribute.
C23_CellSampling ==
  /\ [](\A i \in 1 .. Len(stack) :
          stack[i].fn = "setCharacter" =>
            LET f == stack[i] IN
            /\ f.move <=> (f.row # atEntry.h.cursorRow \/ f.column # atEntry.h.cursorColumn)
            /\ ~f.move =>
                 /\ i = Len(stack)
                 /\ Cursor(segmentHeader) = Cursor(atEntry.h)
                 /\ stdscr = atEntry.w
            /\ (f.move /\ f.at = "back") =>
                 /\ Cursor(segmentHeader) = [row |-> f.row, column |-> f.column]
                 /\ stdscr.cury = f.row /\ stdscr.curx = f.column
                 /\ f.wch = stdscr.cells[<<f.row, f.column>>])
  /\ [][SetCharacterReturns =>
          LET f == Top
              cell == stdscr'.cells[<<f.row, f.column>>]
              character == grid'[(f.row * Width) + f.column]
          IN /\ Cursor(segmentHeader') = Cursor(atEntry.h)
             /\ stdscr' = atEntry.w
             /\ DOMAIN grid' = DOMAIN atEntry.g
             /\ \A j \in DOMAIN grid' :
                  j # (f.row * Width) + f.column => grid'[j] = atEntry.g[j]
             /\ character.text = cell.text
             /\ character.blink = ("A_BLINK" \in cell.attr)
             /\ character.bold = ("A_BOLD" \in cell.attr)
             /\ character.underline = ("A_UNDERLINE" \in cell.attr)
             /\ character.reverse = ("A_REVERSE" \in cell.attr)
             /\ character.standout = ("A_STANDOUT" \in cell.attr)
             /\ character.dim = ("A_DIM" \in cell.attr)]_vars

\* ptyAddCharacter has sampled, away from the cursor, a character written with
\* the dim attribute alone
C23_Witness ==
  /\ stack = <<>> /\ op.name = "ptyAddCharacter"
  /\ Cursor(atEntry.h) # Cursor(atCall.h)
  /\ Cursor(segmentHeader) = Cursor(atEntry.h)
  /\ grid[(atCall.h.cursorRow * Width) + atCall.h.cursorColumn] =
       [Initializer EXCEPT !.text = op.a, !.dim = TRUE]

\* C25 as stated: what a reader read of the header's cursor while the writer
\* was in ptySetCursorPosition or ptyAddCharacter is the position before the
\* call or the position after it.
C25_NoTornCursor ==
  (stack = <<>> /\ observed # NULL
     /\ op.name \in {"ptySetCursorPosition", "ptyAddCharacter"}) =>
    observed \in {Cursor(atCall.h), Cursor(segmentHeader)}

\* C25: the row it read is the row before the call or the row after it, and
\* the column it read the column before or the column after; the pair may be
\* neither position.
C25_NoTornCursorField ==
  (stack = <<>> /\ observed # NULL
     /\ op.name \in {"ptySetCursorPosition", "ptyAddCharacter"}) =>
    /\ observed.row \in {atCall.h.cursorRow, segmentHeader.cursorRow}
    /\ observed.column \in {atCall.h.cursorColumn, segmentHeader.cursorColumn}

\* a reader read, while ptyAddCharacter wrote in the last column, the new row
\* with the old column
C25_Witness ==
  /\ stack = <<>> /\ observed # NULL
  /\ op.name = "ptyAddCharacter"
  /\ atCall.h.cursorColumn = Width - 1
  /\ segmentHeader.cursorRow = atCall.h.cursorRow + 1
  /\ observed = [row |-> segmentHeader.cursorRow, column |-> atCall.h.cursorColumn]

\* the last row the window may be on
WinyLimit == Max(scr.rows - brl.textRows, 0)

\* the six commands of C26
VerticalCommands ==
  { "BRL_CMD_TOP", "BRL_CMD_BOT", "BRL_CMD_LNUP", "BRL_CMD_LNDN",
    "BRL_CMD_WINUP", "BRL_CMD_WINDN" }

\* the command cannot move the window in its direction
AtEdge(command) ==
  IF command \in {"BRL_CMD_TOP", "BRL_CMD_LNUP", "BRL_CMD_WINUP"}
  THEN ses.winy = 0
  ELSE ses.winy = WinyLimit

\* this step handles the command, from its entry to its return
Handles(command) ==
  nav.pc = "idle" /\ nav'.pc = "idle" /\ nav'.command = command

\* C26 as stated: after any sequence of TOP, BOT, LNUP, LNDN, WINUP and WINDN
\* the window row is within 0..max(scr.rows - brl.textRows, 0), and a command
\* that cannot move in its direction leaves the row and raises the bounce alert.
C26_WindowRowBoundedAlwaysBounces ==
  /\ [](ses.winy >= 0 /\ ses.winy <= WinyLimit)
  /\ [][\A command \in VerticalCommands :
          (Handles(command) /\ AtEdge(command)) =>
            /\ ses'.winy = ses.winy
            /\ "ALERT_BOUNCE" \in alerts']_vars

\* C26, amended: the same, except that TOP and BOT carrying the to-left flag
\* with the window not at the left margin (ses->winx > 0) move the window to
\* column 0 and raise no alert.
C26_WindowRowBounded ==
  /\ [](ses.winy >= 0 /\ ses.winy <= WinyLimit)
  /\ [][\A command \in VerticalCommands :
          (Handles(command) /\ AtEdge(command)) =>
            /\ ses'.winy = ses.winy
            /\ IF /\ command \in {"BRL_CMD_TOP", "BRL_CMD_BOT"}
                  /\ nav'.toleft
                  /\ ses.winx > 0
               THEN ses'.winx = 0 /\ alerts' = {}
               ELSE ses'.winx = ses.winx /\ "ALERT_BOUNCE" \in alerts']_vars

\* BRL_CMD_WINDN bounced on the last row of a screen taller than the display
C26_Witness ==
  /\ nav.pc = "idle" /\ nav.command = "BRL_CMD_WINDN"
  /\ WinyLimit > 0 /\ ses.winy = WinyLimit
  /\ "ALERT_BOUNCE" \in alerts

\* the text of line row of the screen is blank
BlankLine(row) == \A x \in 0..(scr.cols - 1) : scr.text[row][x] = " "

\* this step is the return of the handler from the command
Returned(command) == nav.pc = command /\ nav'.pc = "idle"

\* C27: BRL_CMD_PRPGRPH terminates, its scan line decreasing by one per pass
\* and never below 0; it either sets winy to a non-blank line above the window
\* whose predecessor is blank or that is line 0, and winx to 0, or, having
\* ended at line 0 without reaching FINDING_FIRST_LINE, raises the bounce alert
\* and leaves winx and winy.
C27_PreviousParagraph ==
  /\ (nav.pc = "BRL_CMD_PRPGRPH") ~> (nav.pc = "idle")
  /\ [](nav.pc = "BRL_CMD_PRPGRPH" => nav.locals.line >= 0)
  /\ [][(nav.pc = "BRL_CMD_PRPGRPH" /\ nav'.pc = "BRL_CMD_PRPGRPH"
         /\ nav'.locals.at = "while")
        => nav'.locals.line = nav.locals.line - 1]_vars
  /\ [][Returned("BRL_CMD_PRPGRPH") =>
          \/ /\ ses'.winy < ses.winy
             /\ ~BlankLine(ses'.winy)
             /\ ses'.winy = 0 \/ BlankLine(ses'.winy - 1)
             /\ ses'.winx = 0
             /\ alerts' = {}
          \/ /\ nav.locals.line = 0
             /\ nav.locals.state # "FINDING_FIRST_LINE"
             /\ "ALERT_BOUNCE" \in alerts'
             /\ ses' = ses]_vars

\* the command found the first line of a paragraph that does not start the
\* screen, from a window that was not at the left margin
C27_Witness ==
  /\ nav.pc = "idle" /\ nav.command = "BRL_CMD_PRPGRPH"
  /\ nav.locals.at = "foundFirstLine"
  /\ ses.winy = nav.locals.line /\ ses.winy > 0
  /\ ses.winx = 0 /\ alerts = {}

\* the window holds a character that is not a space, or the screen cursor
WindowNotBlank ==
  \E x \in ses.winx..(Min(ses.winx + getWindowLength, scr.cols) - 1) :
    \/ scr.text[ses.winy][x] # " "
    \/ prefs.showScreenCursor /\ scr.posy = ses.winy /\ scr.posx = x

\* this step is the pass after which the function returns
LastPass == nav.pc \in {"BRL_CMD_PRNBWIN", "BRL_CMD_NXNBWIN"}
            /\ nav.locals.at = "while" /\ nav'.locals.at = "return"

\* C28: toPreviousNonblankWindow and toNextNonblankWindow terminate; they
\* return either on a window that holds a character that is not a space or the
\* screen cursor, or with the bounce alert raised and winx and winy as they
\* were before the command.
C28_NonblankWindowTerminates ==
  /\ (nav.pc \in {"BRL_CMD_PRNBWIN", "BRL_CMD_NXNBWIN"}) ~> (nav.pc = "idle")
  /\ [][LastPass =>
          \/ WindowNotBlank'
          \/ /\ "ALERT_BOUNCE" \in alerts'
             /\ ses'.winx = nav.locals.oldX
             /\ ses'.winy = nav.locals.oldY]_vars
====
